---- MODULE Spec2Model ----
(***************************************************************************)
(* A model of the Instagram follower aggregator                           *)
(* (src/projects/instagram_aggregator/follower_aggregator.py).            *)
(*                                                                         *)
(* A string is a sequence of code points, so that lower(), strip(),       *)
(* lstrip('@'), the substring test, the mention regex and the mojibake    *)
(* repair are computed character by character, as Python computes them.   *)
(* A dict is a sequence of records in insertion order; an optional key of *)
(* a dict (or a value that may be None) is a sequence of length 0 (absent *)
(* or None) or 1 (present).  The ISO date strings and the profile URLs    *)
(* that the code stores beside each timestamp and handle are derived from *)
(* them and read by no decision; they are left out.                       *)
(***************************************************************************)
EXTENDS Integers, Sequences, FiniteSets, TLC

VARIABLES
    pc,          \* position of the run (which specification, which stage)
    text,        \* SpecNorm: the input string of normalize_username
    result,      \* SpecNorm: the successive outputs of normalize_username
    followers,   \* the mapping username -> record, in insertion order
    steps,       \* SpecComments, SpecStatus: the entries read so far
    layout,      \* which directories of the input exist
    consumed,    \* number of input entries read so far in this run
    entry,       \* the input entry the last step read (None: it read none)
    progress,    \* the percentages given to progress_callback, in order
    written,     \* the output files written, each with its lines
    results      \* the dict process_instagram_data builds and returns

vars == <<pc, text, result, followers, steps, layout, consumed, entry,
          progress, written, results>>

----------------------------------------------------------------------------
(* Bounds *)

\* longest input string of the normalizer specification
MaxLen == 3
\* most status steps applied in the status specification
MaxSteps == 3
\* most comment entries read in the comment specification
MaxComments == 3
\* most follower entries read before the comment and status specifications
MaxLoaded == 2
\* most entries (followers, comments, conversations, story entries, requests)
\* in the whole input directory of one run
MaxEntries == 2
\* most messages in one conversation file
MaxMsgs == 2

----------------------------------------------------------------------------
(* Strings *)

None == <<>>
Some(v) == <<v>>

\* the characters the normalizer specification draws its inputs from:
\* 'a', 'A', '@', ' '
Alphabet == {97, 65, 64, 32}

RECURSIVE StringsUpTo(_, _)
StringsUpTo(S, n) ==
    IF n = 0 THEN {<<>>}
    ELSE LET shorter == StringsUpTo(S, n - 1)
         IN  shorter \cup {Append(s, c) : s \in shorter, c \in S}

IsUpperAscii(c) == 65 <= c /\ c <= 90

\* str.lower() on one character: ASCII, and the Cyrillic capitals
LowerChar(c) ==
    CASE IsUpperAscii(c) -> c + 32
      [] 1040 <= c /\ c <= 1071 -> c + 32
      [] 1024 <= c /\ c <= 1039 -> c + 80
      [] OTHER -> c

Lower(s) == [i \in 1..Len(s) |-> LowerChar(s[i])]

\* the characters str.strip() removes (str.isspace) below U+0100
IsSpace(c) == c \in {9, 10, 11, 12, 13, 28, 29, 30, 31, 32, 133, 160}

RECURSIVE LStripSpace(_)
LStripSpace(s) ==
    IF s # <<>> /\ IsSpace(Head(s)) THEN LStripSpace(Tail(s)) ELSE s

RECURSIVE RStripSpace(_)
RStripSpace(s) ==
    IF s # <<>> /\ IsSpace(s[Len(s)])
    THEN RStripSpace(SubSeq(s, 1, Len(s) - 1))
    ELSE s

\* str.strip()
Strip(s) == RStripSpace(LStripSpace(s))

\* str.lstrip('@'): every leading '@' is removed
RECURSIVE LStripAt(_)
LStripAt(s) ==
    IF s # <<>> /\ Head(s) = 64 THEN LStripAt(Tail(s)) ELSE s

normalize_username(username) ==
    IF username = <<>> THEN <<>>
    ELSE LStripAt(Strip(Lower(username)))

\* Python's `a in b` on strings
IsSubstring(a, b) ==
    \E i \in 0..(Len(b) - Len(a)) : SubSeq(b, i + 1, i + Len(a)) = a

----------------------------------------------------------------------------
(* SpecNorm: normalize_username applied once and again to its own output *)

InitNorm ==
    /\ pc = "norm"
    /\ text \in StringsUpTo(Alphabet, MaxLen)
    /\ result = <<>>
    /\ followers = <<>>
    /\ steps = <<>>
    /\ layout = None
    /\ consumed = 0
    /\ entry = None
    /\ progress = <<>>
    /\ written = {}
    /\ results = None

Normalize ==
    /\ pc = "norm"
    /\ Len(result) < 2
    /\ result' = Append(result,
                        normalize_username(IF result = <<>> THEN text
                                           ELSE result[Len(result)]))
    /\ UNCHANGED <<pc, text, followers, steps, layout, consumed, entry,
                   progress, written, results>>

NextNorm == Normalize

SpecNorm == InitNorm /\ [][NextNorm]_vars

\* C1: normalize_username is idempotent, and its output has no leading '@'
\* and no uppercase ASCII letter.
C1_NormalizeIdempotent ==
    (pc = "norm" /\ Len(result) = 2) =>
        /\ result[2] = result[1]
        /\ (result[1] # <<>> => Head(result[1]) # 64)
        /\ \A i \in 1..Len(result[1]) : ~IsUpperAscii(result[1][i])

----------------------------------------------------------------------------
(* Text: mojibake repair and the mention regex *)

SetMin(S) == CHOOSE x \in S : \A y \in S : x <= y
SetMax(S) == CHOOSE x \in S : \A y \in S : x >= y

\* the code points the repair looks for: 0xD0-0xDF or 0x80-0xBF
IsMojibake(c) == (208 <= c /\ c <= 223) \/ (128 <= c /\ c <= 191)

\* char.encode('utf-8') of a code point above 0xFF
Utf8Encode(c) ==
    IF c < 2048 THEN <<192 + (c \div 64), 128 + (c % 64)>>
    ELSE IF c < 65536
    THEN <<224 + (c \div 4096), 128 + ((c \div 64) % 64), 128 + (c % 64)>>
    ELSE <<240 + (c \div 262144), 128 + ((c \div 4096) % 64),
           128 + ((c \div 64) % 64), 128 + (c % 64)>>

\* a mutant of BytesOf: every code point above 0x7F is encoded as UTF-8
BytesOfEncoded(code) == IF code <= 127 THEN <<code>> ELSE Utf8Encode(code)

\* the bytes appended for one character: its code point up to 0xFF, its
\* UTF-8 encoding above
BytesOf(code) == IF code <= 255 THEN <<code>> ELSE Utf8Encode(code)

\* the byte sequence built from the text
RECURSIVE ByteSequence(_)
ByteSequence(s) ==
    IF s = <<>> THEN <<>>
    ELSE BytesOf(Head(s)) \o ByteSequence(Tail(s))

IsCont(b) == 128 <= b /\ b <= 191

\* the code point of the UTF-8 sequence of n bytes at the head of b
CodePoint(b, n) ==
    CASE n = 1 -> b[1]
      [] n = 2 -> (b[1] - 192) * 64 + (b[2] - 128)
      [] n = 3 -> (b[1] - 224) * 4096 + (b[2] - 128) * 64 + (b[3] - 128)
      [] n = 4 -> (b[1] - 240) * 262144 + (b[2] - 128) * 4096
                  + (b[3] - 128) * 64 + (b[4] - 128)

\* the length of the UTF-8 sequence that lead byte b1 starts; 0: none
SequenceLength(b1) ==
    CASE b1 < 128 -> 1
      [] 194 <= b1 /\ b1 <= 223 -> 2
      [] 224 <= b1 /\ b1 <= 239 -> 3
      [] 240 <= b1 /\ b1 <= 244 -> 4
      [] OTHER -> 0

\* the bytes at the head of b are one well-formed UTF-8 sequence of n bytes
WellFormed(b, n) ==
    /\ n # 0
    /\ Len(b) >= n
    /\ \A i \in 2..n : IsCont(b[i])
    /\ ~(b[1] = 224 /\ b[2] < 160)
    /\ ~(b[1] = 237 /\ b[2] > 159)
    /\ ~(b[1] = 240 /\ b[2] < 144)
    /\ ~(b[1] = 244 /\ b[2] > 143)

\* bytes.decode('utf-8'), strict, after the code points in decoded: None
\* when the bytes are not valid UTF-8
RECURSIVE Utf8DecodeFrom(_, _)
Utf8DecodeFrom(b, decoded) ==
    IF b = <<>> THEN Some(decoded)
    ELSE IF ~WellFormed(b, SequenceLength(b[1])) THEN None
    ELSE Utf8DecodeFrom(SubSeq(b, SequenceLength(b[1]) + 1, Len(b)),
                        Append(decoded, CodePoint(b, SequenceLength(b[1]))))

Utf8Decode(b) == Utf8DecodeFrom(b, <<>>)

fix_double_encoded_unicode(s) ==
    IF s = <<>> THEN s
    ELSE IF ~\E i \in 1..Len(s) : IsMojibake(s[i]) THEN s
    ELSE
      LET problematic_chars ==
              Cardinality({i \in 1..Len(s) : 128 <= s[i] /\ s[i] <= 255})
          fixed == Utf8Decode(ByteSequence(s))
      IN
      IF problematic_chars = 0 \/ fixed = None THEN s
      ELSE
        LET has_cyrillic ==
                \E i \in 1..Len(fixed[1]) :
                    1024 <= fixed[1][i] /\ fixed[1][i] <= 1279
            has_improved_mojibake ==
                ~\E i \in 1..Len(fixed[1]) :
                    208 <= fixed[1][i] /\ fixed[1][i] <= 223
        IN IF has_cyrillic
              \/ (has_improved_mojibake /\ 5 * problematic_chars > Len(s))
           THEN fixed[1] ELSE s

\* the class [a-zA-Z0-9._] of the mention regex
IsMentionChar(c) ==
    \/ (97 <= c /\ c <= 122) \/ (65 <= c /\ c <= 90)
    \/ (48 <= c /\ c <= 57) \/ c = 46 \/ c = 95

\* re.search(r'@([a-zA-Z0-9._]+)', comment_text): the first '@' that a class
\* character follows, and the longest run of class characters after it
extract_username_from_comment(comment_text) ==
    LET starts == {i \in 1..(Len(comment_text) - 1) :
                      comment_text[i] = 64 /\ IsMentionChar(comment_text[i + 1])}
    IN
    IF comment_text = <<>> \/ starts = {} THEN None
    ELSE
      LET i == SetMin(starts)
          j == SetMax({k \in (i + 1)..Len(comment_text) :
                          \A m \in (i + 1)..k : IsMentionChar(comment_text[m])})
      IN Some(normalize_username(SubSeq(comment_text, i + 1, j)))

\* extract_username_from_message_folder: the folder name without its last
\* '_'-separated part, normalized; None when the name has no '_'
extract_username_from_message_folder(folder_name) ==
    LET unders == {i \in 1..Len(folder_name) : folder_name[i] = 95}
    IN IF folder_name = <<>> \/ unders = {} THEN None
       ELSE Some(normalize_username(SubSeq(folder_name, 1, SetMax(unders) - 1)))

----------------------------------------------------------------------------
(* The mapping and its records *)

\* a timestamp that json.load returns as something other than a number (a
\* JSON string): truthy, not comparable with a number, refused by
\* datetime.fromtimestamp
BadTs == -2

Keys(f) == {f[i].username : i \in 1..Len(f)}

\* `k in followers`
HasKey(f, k) == k \in Keys(f)

Index(f, k) == CHOOSE i \in 1..Len(f) : f[i].username = k

Get(f, k) == f[Index(f, k)]

\* followers[k] = rec: an existing key keeps its place, a new one goes last
Put(f, k, rec) ==
    IF HasKey(f, k) THEN [f EXCEPT ![Index(f, k)] = rec] ELSE Append(f, rec)

\* the dict load_followers stores for one handle
FollowerRecord(username, timestamp) ==
    [username |-> username,
     follow_date |-> Some(timestamp),
     is_follower |-> None,
     status |-> None,
     comments |-> None,
     messages |-> None,
     story_interactions |-> None,
     engagement_score |-> None,
     inferred_discovery_method |-> None,
     has_interactions |-> None,
     total_interactions |-> None]

NewComments ==
    [total_comments |-> 0,
     first_comment_timestamp |-> None,
     last_comment_timestamp |-> None,
     sample_comments |-> <<>>]

\* the 'messages' dict load_messages creates: it has no message_request_count
NewInboxMessages ==
    [has_messaged |-> TRUE,
     message_count |-> 0,
     first_message_timestamp |-> None,
     last_message_timestamp |-> None,
     initiated_conversation |-> FALSE,
     message_request_count |-> None]

NewStoryInteractions ==
    [story_likes_count |-> 0,
     emoji_reactions_count |-> 0,
     countdown_interactions_count |-> 0,
     last_story_interaction_timestamp |-> None]

----------------------------------------------------------------------------
(* The inputs a run reads *)

Timestamps == 0..2

\* handles as the export writes them: "@", "A", "ab"
RawNames == {<<64>>, <<65>>, <<97, 98>>}

\* the account owner's display name, "Photia"
OwnerName == <<80, 104, 111, 116, 105, 97>>

\* the marker the enrichers look for in a participant's name, 'photia'
OwnerMarker == <<112, 104, 111, 116, 105, 97>>

\* comment texts: "hi", "@A", "x@ab!"
CommentTexts == {<<104, 105>>, <<64, 65>>, <<120, 64, 97, 98, 33>>}

\* a follower entry has no timestamp (0) or the newest one
FollowerEntries == [value : RawNames, timestamp : {0, 2}]

CommentEntries == [text : CommentTexts, timestamp : Timestamps \cup {BadTs}]

\* the messages of a conversation file: the owner's at second 1, one of "ab"
\* at second 2, one of "ab" without a timestamp.  timestamp_ms is a whole
\* number of seconds, so that timestamp_ms / 1000 is the integer the model
\* stores.
Messages ==
    {[sender_name |-> OwnerName, timestamp_ms |-> 1000],
     [sender_name |-> <<97, 98>>, timestamp_ms |-> 2000],
     [sender_name |-> <<97, 98>>, timestamp_ms |-> 0]}

RECURSIVE SeqsUpTo(_, _)
SeqsUpTo(S, n) ==
    IF n = 0 THEN {<<>>}
    ELSE LET shorter == SeqsUpTo(S, n - 1)
         IN  shorter \cup {Append(s, x) : s \in shorter, x \in S}

\* the participants and the folder of a conversation: the owner and one
\* other participant ("@", "A", "X"), in folder "1"; the owner alone, in
\* folder "ab_1" or in folder "1" (the folder name then decides)
ConversationHeads ==
    {[participants |-> <<OwnerName, <<64>>>>, folder |-> <<49>>],
     [participants |-> <<OwnerName, <<65>>>>, folder |-> <<49>>],
     [participants |-> <<OwnerName, <<88>>>>, folder |-> <<49>>],
     [participants |-> <<OwnerName>>, folder |-> <<97, 98, 95, 49>>],
     [participants |-> <<OwnerName>>, folder |-> <<49>>]}

Conversations ==
    {[participants |-> h.participants, folder |-> h.folder, messages |-> m] :
        h \in ConversationHeads, m \in SeqsUpTo(Messages, MaxMsgs)}

StoryEntries == [title : RawNames, timestamp : Timestamps]

RequestEntries == [value : RawNames]

----------------------------------------------------------------------------
(* load_followers *)

\* the body of the loop over the entries of a followers_*.json file
FollowerEntry(f, e) ==
    LET username == normalize_username(e.value)
    IN IF username # <<>>
       THEN Put(f, username, FollowerRecord(username, e.timestamp))
       ELSE f

----------------------------------------------------------------------------
(* load_comments *)

\* most sample comments kept per record
MaxSamples == 5
\* most characters kept of a sample comment
SampleTextLimit == 200

Truncate(s) ==
    IF Len(s) <= SampleTextLimit THEN s ELSE SubSeq(s, 1, SampleTextLimit)

\* a mutant of KeepsSample: every dated comment is kept as a sample
KeepsSampleAlways(sample_comments) == TRUE

\* the test that appends a comment to sample_comments
KeepsSample(sample_comments) == Len(sample_comments) < MaxSamples

\* a mutant of IsEarlierComment: the first timestamp, once set, is kept
IsEarlierCommentNever(timestamp, first) == first = None

\* the test that lowers first_comment_timestamp
IsEarlierComment(timestamp, first) ==
    first = None \/ timestamp < first[1]

\* the test that raises last_comment_timestamp
IsLaterComment(timestamp, last) ==
    last = None \/ timestamp > last[1]

\* The body of the loop over the entries of post_comments_1.json, for an
\* entry that has 'string_map_data'.  exc: the body raised (a non-numeric
\* timestamp is stored as first_comment_timestamp when none is set, and then
\* datetime.fromtimestamp raises; compared with a number it raises at once).
CommentEntry(f, e) ==
    LET comment_text == fix_double_encoded_unicode(e.text)
        timestamp == e.timestamp
        mention == extract_username_from_comment(comment_text)
    IN
    IF mention = None \/ mention[1] = <<>> \/ ~HasKey(f, mention[1])
    THEN [f |-> f, exc |-> FALSE]
    ELSE
      LET username == mention[1]
          r  == Get(f, username)
          c0 == IF r.comments = None THEN NewComments ELSE r.comments[1]
          c1 == [c0 EXCEPT !.total_comments = @ + 1]
          Store(c) == Put(f, username, [r EXCEPT !.comments = Some(c)])
      IN
      IF timestamp = 0 THEN [f |-> Store(c1), exc |-> FALSE]
      ELSE IF timestamp = BadTs
      THEN IF c1.first_comment_timestamp = None
           THEN [f |-> Store([c1 EXCEPT !.first_comment_timestamp =
                                            Some(timestamp)]),
                 exc |-> TRUE]
           ELSE [f |-> Store(c1), exc |-> TRUE]
      ELSE IF c1.first_comment_timestamp = Some(BadTs)
      THEN [f |-> Store(c1), exc |-> TRUE]
      ELSE
        LET c2 == IF IsEarlierComment(timestamp, c1.first_comment_timestamp)
                  THEN [c1 EXCEPT !.first_comment_timestamp = Some(timestamp)]
                  ELSE c1
            c3 == IF IsLaterComment(timestamp, c2.last_comment_timestamp)
                  THEN [c2 EXCEPT !.last_comment_timestamp = Some(timestamp)]
                  ELSE c2
            c4 == IF KeepsSample(c3.sample_comments)
                  THEN [c3 EXCEPT !.sample_comments =
                            Append(@, [text |-> Truncate(comment_text),
                                       date |-> timestamp])]
                  ELSE c3
        IN [f |-> Store(c4), exc |-> FALSE]

----------------------------------------------------------------------------
(* load_messages and load_message_requests *)

\* The other participant of a conversation: the first participant whose name
\* does not hold the owner marker; when there is none, or its name is empty,
\* the handle taken from the folder name.  None: the conversation is skipped.
OtherParticipant(conv) ==
    LET names == conv.participants
        others == {i \in 1..Len(names) :
                      ~IsSubstring(OwnerMarker, Lower(names[i]))}
        name == IF others = {} THEN <<>> ELSE names[SetMin(others)]
        folder_username == extract_username_from_message_folder(conv.folder)
    IN
    IF names = <<>> THEN None
    ELSE IF name # <<>> THEN Some(name)
    ELSE IF folder_username # None /\ folder_username[1] # <<>>
    THEN folder_username
    ELSE None

\* a mutant of MatchUsername: the first key, in insertion order, that holds
\* the participant or that it holds, even when the participant is a key
MatchUsernameFirstHit(f, normalized_participant) ==
    LET hits == {i \in 1..Len(f) :
                    \/ IsSubstring(f[i].username, normalized_participant)
                    \/ IsSubstring(normalized_participant, f[i].username)}
    IN
    IF hits = {} THEN None
    ELSE Some(f[SetMin(hits)].username)

\* matched_username: the participant itself when it is a key, else the first
\* key, in insertion order, that holds it or that it holds; else None
MatchUsername(f, normalized_participant) ==
    LET hits == {i \in 1..Len(f) :
                    \/ IsSubstring(f[i].username, normalized_participant)
                    \/ IsSubstring(normalized_participant, f[i].username)}
    IN
    IF HasKey(f, normalized_participant) THEN Some(normalized_participant)
    ELSE IF hits = {} THEN None
    ELSE Some(f[SetMin(hits)].username)

\* `if matched_username`: None and the empty string are both false
Truthy(matched_username) ==
    matched_username # None /\ matched_username[1] # <<>>

\* a timestamp_ms that json.load read from the literal NaN
NaN == -1

\* timestamp_ms / 1000
Seconds(timestamp_ms) ==
    IF timestamp_ms = NaN THEN NaN ELSE timestamp_ms \div 1000

\* a < b on numbers: every comparison with NaN is false
Before(a, b) == a # NaN /\ b # NaN /\ a < b

\* datetime.fromtimestamp(timestamp) raises ValueError on NaN
DateRaises(timestamp) == timestamp = NaN

\* the bounds of the message dates: first is lowered, last is raised; each
\* is stored before its ISO date is computed, so an exception of the date
\* (exc) leaves the timestamp stored
UpdateDates(m, timestamp) ==
    LET lower  == \/ m.first_message_timestamp = None
                  \/ Before(timestamp, m.first_message_timestamp[1])
        m1     == IF lower
                  THEN [m EXCEPT !.first_message_timestamp = Some(timestamp)]
                  ELSE m
        raised == lower /\ DateRaises(timestamp)
        higher == \/ m1.last_message_timestamp = None
                  \/ Before(m1.last_message_timestamp[1], timestamp)
    IN IF raised THEN [m |-> m1, exc |-> TRUE]
       ELSE IF higher
       THEN [m |-> [m1 EXCEPT !.last_message_timestamp = Some(timestamp)],
             exc |-> DateRaises(timestamp)]
       ELSE [m |-> m1, exc |-> FALSE]

\* the loop over the messages of a conversation matched to a record: each
\* message with a non-zero timestamp_ms is counted and dated; an exception
\* ends the conversation and keeps what was stored
RECURSIVE CountMessages(_, _)
CountMessages(m, messages) ==
    IF messages = <<>> THEN m
    ELSE IF Head(messages).timestamp_ms = 0
    THEN CountMessages(m, Tail(messages))
    ELSE IF UpdateDates([m EXCEPT !.message_count = @ + 1],
                        Seconds(Head(messages).timestamp_ms)).exc
    THEN UpdateDates([m EXCEPT !.message_count = @ + 1],
                     Seconds(Head(messages).timestamp_ms)).m
    ELSE CountMessages(
            UpdateDates([m EXCEPT !.message_count = @ + 1],
                        Seconds(Head(messages).timestamp_ms)).m,
            Tail(messages))

\* the loop over the messages of a conversation that created a record: each
\* message with a non-zero timestamp_ms is dated; an exception ends the
\* conversation and keeps what was stored
RECURSIVE SetDates(_, _)
SetDates(m, messages) ==
    IF messages = <<>> THEN m
    ELSE IF Head(messages).timestamp_ms = 0
    THEN SetDates(m, Tail(messages))
    ELSE IF UpdateDates(m, Seconds(Head(messages).timestamp_ms)).exc
    THEN UpdateDates(m, Seconds(Head(messages).timestamp_ms)).m
    ELSE SetDates(UpdateDates(m, Seconds(Head(messages).timestamp_ms)).m,
                  Tail(messages))

\* the value load_messages stores in initiated_conversation
InboxInitiated(matched_username, messages) ==
    LET first_sender ==
            normalize_username(messages[Len(messages)].sender_name)
    IN \/ first_sender = matched_username
       \/ IsSubstring(matched_username, first_sender)

\* a mutant of InboxUnmatched: the inbox keeps the unmatched participant
InboxUnmatchedTracked(f, normalized_participant) ==
    Put(f, normalized_participant, FollowerRecord(normalized_participant, 0))

\* an inbox conversation that matches no record is dropped
InboxUnmatched(f, normalized_participant) == f

\* the body of the loop over the inbox folders, for a folder that holds a
\* readable message_1.json
InboxConversation(f, conv) ==
    LET other_participant == OtherParticipant(conv)
        normalized_participant == normalize_username(other_participant[1])
        matched_username == MatchUsername(f, normalized_participant)
    IN
    IF other_participant = None THEN f
    ELSE IF ~Truthy(matched_username)
    THEN InboxUnmatched(f, normalized_participant)
    ELSE IF conv.messages = <<>> THEN f
    ELSE
      LET r  == Get(f, matched_username[1])
          m0 == IF r.messages = None THEN NewInboxMessages
                ELSE r.messages[1]
          m1 == [m0 EXCEPT !.initiated_conversation =
                               InboxInitiated(matched_username[1],
                                              conv.messages)]
      IN Put(f, matched_username[1],
             [r EXCEPT !.messages = Some(CountMessages(m1, conv.messages))])

\* a mutant of RequestCount: a count already stored is kept
RequestCountKept(m, messages) ==
    IF m.message_request_count \notin {None, Some(0)}
    THEN m.message_request_count[1]
    ELSE Len(messages)

\* the value load_message_requests stores in message_request_count of a
\* record it matched
RequestCount(m, messages) == Len(messages)

\* a mutant of LeadMessageCount: only the dated messages are counted
LeadMessageCountDated(messages) ==
    Len(SelectSeq(messages, LAMBDA m : m.timestamp_ms # 0))

\* the message_count of the record load_message_requests creates
LeadMessageCount(messages) == Len(messages)

\* the record load_message_requests creates for an unmatched participant
LeadRecord(normalized_participant, messages) ==
    [username |-> normalized_participant,
     follow_date |-> None,
     is_follower |-> Some(FALSE),
     status |-> Some("message_request_only"),
     comments |-> None,
     messages |->
        Some(SetDates([has_messaged |-> TRUE,
                       message_count |-> LeadMessageCount(messages),
                       first_message_timestamp |-> None,
                       last_message_timestamp |-> None,
                       initiated_conversation |-> TRUE,
                       message_request_count |-> Some(Len(messages))],
                      messages)),
     story_interactions |-> None,
     engagement_score |-> None,
     inferred_discovery_method |-> None,
     has_interactions |-> None,
     total_interactions |-> None]

\* the body of the loop over the message_requests folders
MessageRequestConversation(f, conv) ==
    LET other_participant == OtherParticipant(conv)
        normalized_participant == normalize_username(other_participant[1])
        matched_username == MatchUsername(f, normalized_participant)
    IN
    IF other_participant = None THEN f
    ELSE IF conv.messages = <<>> THEN f
    ELSE IF Truthy(matched_username)
    THEN
      LET r  == Get(f, matched_username[1])
          m0 == IF r.messages = None
                THEN [NewInboxMessages EXCEPT
                         !.message_request_count = Some(0)]
                ELSE r.messages[1]
          m1 == [m0 EXCEPT
                    !.message_request_count =
                        Some(RequestCount(m0, conv.messages)),
                    !.initiated_conversation = TRUE]
      IN Put(f, matched_username[1],
             [r EXCEPT !.messages = Some(CountMessages(m1, conv.messages))])
    ELSE Put(f, normalized_participant,
             LeadRecord(normalized_participant, conv.messages))

----------------------------------------------------------------------------
(* load_story_interactions *)

\* a mutant of IsLaterInteraction: the entry read last gives the timestamp
IsLaterInteractionAlways(last, timestamp) == TRUE

\* the test that stores the timestamp of a story entry
IsLaterInteraction(last, timestamp) ==
    last = None \/ timestamp > last[1]

\* the body of the loop over the entries of one of the three story files;
\* source is the stage: the file read and the counter it raises
StoryEntry(f, e, source) ==
    LET username == normalize_username(e.title)
    IN
    IF username = <<>> \/ ~HasKey(f, username) THEN f
    ELSE
      LET r  == Get(f, username)
          s0 == IF r.story_interactions = None THEN NewStoryInteractions
                ELSE r.story_interactions[1]
          s1 == CASE source = "story_likes" ->
                       [s0 EXCEPT !.story_likes_count = @ + 1]
                  [] source = "emoji_reactions" ->
                       [s0 EXCEPT !.emoji_reactions_count = @ + 1]
                  [] source = "countdowns" ->
                       [s0 EXCEPT !.countdown_interactions_count = @ + 1]
          s2 == IF e.timestamp # 0
                   /\ IsLaterInteraction(s1.last_story_interaction_timestamp,
                                         e.timestamp)
                THEN [s1 EXCEPT !.last_story_interaction_timestamp =
                                    Some(e.timestamp)]
                ELSE s1
      IN Put(f, username, [r EXCEPT !.story_interactions = Some(s2)])

----------------------------------------------------------------------------
(* load_follow_requests and load_recently_unfollowed *)

SetStatus(f, username, status) ==
    Put(f, username, [Get(f, username) EXCEPT !.status = Some(status)])

\* a mutant of PendingEntry: written only when no status is set
PendingEntryIfAbsent(f, e) ==
    LET username == normalize_username(e.value)
    IN IF HasKey(f, username) /\ Get(f, username).status = None
       THEN SetStatus(f, username, "pending_request")
       ELSE f

\* an entry of pending_follow_requests.json: written whatever the status is
PendingEntry(f, e) ==
    LET username == normalize_username(e.value)
    IN IF HasKey(f, username)
       THEN SetStatus(f, username, "pending_request")
       ELSE f

\* a mutant of RecentEntry: written whatever the status is
RecentEntryAlways(f, e) ==
    LET username == normalize_username(e.value)
    IN IF HasKey(f, username)
       THEN SetStatus(f, username, "recent_request")
       ELSE f

\* an entry of recent_follow_requests.json: written when no status is set
RecentEntry(f, e) ==
    LET username == normalize_username(e.value)
    IN IF HasKey(f, username) /\ Get(f, username).status = None
       THEN SetStatus(f, username, "recent_request")
       ELSE f

\* an entry of recently_unfollowed_profiles.json: written whatever the
\* status is
UnfollowedEntry(f, e) ==
    LET username == normalize_username(e.value)
    IN IF HasKey(f, username)
       THEN SetStatus(f, username, "recently_unfollowed")
       ELSE f

----------------------------------------------------------------------------
(* finalize_follower_data *)

SecondsPerDay == 86400

\* the recency bonus of one last-interaction timestamp
Recency(last, now) ==
    IF last = None \/ last[1] = 0 \/ last[1] = NaN THEN 0
    ELSE IF now - last[1] < 30 * SecondsPerDay THEN 10
    ELSE IF now - last[1] < 90 * SecondsPerDay THEN 5
    ELSE 0

\* a mutant of calculate_engagement_score: of the two recency bonuses only
\* the larger one is added
calculate_engagement_scoreOneBonus(r, now) ==
    (IF r.comments # None THEN r.comments[1].total_comments * 2 ELSE 0)
    + (IF r.messages # None
       THEN r.messages[1].message_count * 3
            + (IF r.messages[1].initiated_conversation THEN 5 ELSE 0)
       ELSE 0)
    + (IF r.story_interactions # None
       THEN r.story_interactions[1].story_likes_count
            + r.story_interactions[1].emoji_reactions_count
            + r.story_interactions[1].countdown_interactions_count
       ELSE 0)
    + SetMax({IF r.comments # None
              THEN Recency(r.comments[1].last_comment_timestamp, now) ELSE 0,
              IF r.messages # None
              THEN Recency(r.messages[1].last_message_timestamp, now) ELSE 0})

\* the sum is a whole number, which round(score, 2) leaves as it is
calculate_engagement_score(r, now) ==
    (IF r.comments # None THEN r.comments[1].total_comments * 2 ELSE 0)
    + (IF r.messages # None
       THEN r.messages[1].message_count * 3
            + (IF r.messages[1].initiated_conversation THEN 5 ELSE 0)
       ELSE 0)
    + (IF r.story_interactions # None
       THEN r.story_interactions[1].story_likes_count
            + r.story_interactions[1].emoji_reactions_count
            + r.story_interactions[1].countdown_interactions_count
       ELSE 0)
    + (IF r.comments # None
       THEN Recency(r.comments[1].last_comment_timestamp, now) ELSE 0)
    + (IF r.messages # None
       THEN Recency(r.messages[1].last_message_timestamp, now) ELSE 0)

Initiated(r) ==
    r.messages # None /\ r.messages[1].initiated_conversation

\* `comment_timestamp < follow_timestamp` is evaluated: the record is a
\* follower with a follow date and a first comment timestamp
ComparesComment(r) ==
    /\ r.is_follower # Some(FALSE)
    /\ r.follow_date # None /\ r.follow_date[1] # 0
    /\ r.comments # None
    /\ r.comments[1].first_comment_timestamp # None
    /\ r.comments[1].first_comment_timestamp[1] # 0

\* infer_discovery_method raises: it compares a non-numeric comment
\* timestamp with the follow date
InferRaises(r) ==
    ComparesComment(r) /\ r.comments[1].first_comment_timestamp[1] = BadTs

\* a mutant of infer_discovery_method: the first message is compared with
\* the follow date before the first comment is
infer_discovery_methodMessagesFirst(r) ==
    IF r.is_follower = Some(FALSE) THEN "direct_outreach"
    ELSE IF r.follow_date = None \/ r.follow_date[1] = 0
    THEN (IF Initiated(r) THEN "direct_outreach" ELSE "unknown")
    ELSE IF /\ r.messages # None
            /\ r.messages[1].first_message_timestamp # None
            /\ r.messages[1].first_message_timestamp[1] # 0
            /\ Before(r.messages[1].first_message_timestamp[1],
                      r.follow_date[1])
    THEN "direct_outreach"
    ELSE IF ComparesComment(r)
            /\ r.comments[1].first_comment_timestamp[1] < r.follow_date[1]
    THEN "content_discovery"
    ELSE IF Initiated(r) THEN "direct_outreach"
    ELSE "unknown"

infer_discovery_method(r) ==
    IF r.is_follower = Some(FALSE) THEN "direct_outreach"
    ELSE IF r.follow_date = None \/ r.follow_date[1] = 0
    THEN (IF Initiated(r) THEN "direct_outreach" ELSE "unknown")
    ELSE IF ComparesComment(r)
            /\ r.comments[1].first_comment_timestamp[1] < r.follow_date[1]
    THEN "content_discovery"
    ELSE IF /\ r.messages # None
            /\ r.messages[1].first_message_timestamp # None
            /\ r.messages[1].first_message_timestamp[1] # 0
            /\ Before(r.messages[1].first_message_timestamp[1],
                      r.follow_date[1])
    THEN "direct_outreach"
    ELSE IF Initiated(r) THEN "direct_outreach"
    ELSE "unknown"

\* a mutant of DefaultStatus: the default is written whatever the status is
DefaultStatusAlways(r) == [r EXCEPT !.status = Some("active_follower")]

DefaultStatus(r) ==
    IF r.status = None THEN [r EXCEPT !.status = Some("active_follower")]
    ELSE r

\* the record as finalize_follower_data has it when it calls
\* infer_discovery_method
ScoredRecord(r, now) ==
    [DefaultStatus(r) EXCEPT
        !.engagement_score = Some(calculate_engagement_score(r, now))]

total_interactions(r) ==
    (IF r.comments # None THEN r.comments[1].total_comments ELSE 0)
    + (IF r.messages # None THEN r.messages[1].message_count ELSE 0)
    + (IF r.story_interactions # None
       THEN r.story_interactions[1].story_likes_count
            + r.story_interactions[1].emoji_reactions_count
            + r.story_interactions[1].countdown_interactions_count
       ELSE 0)

\* a mutant of DefaultIsFollower: the finalizer sets the flag of every record
DefaultIsFollowerAlways(is_follower) == Some(TRUE)

\* `if 'is_follower' not in data: data['is_follower'] = True`
DefaultIsFollower(is_follower) ==
    IF is_follower = None THEN Some(TRUE) ELSE is_follower

\* a mutant of has_interactions: the messages are not looked at
has_interactionsNoMessages(r) ==
    r.comments # None \/ r.story_interactions # None

\* 'comments' in data or 'messages' in data or 'story_interactions' in data
has_interactions(r) ==
    r.comments # None \/ r.messages # None \/ r.story_interactions # None

FinalizedRecord(r, now) ==
    [ScoredRecord(r, now) EXCEPT
        !.inferred_discovery_method = Some(infer_discovery_method(r)),
        !.has_interactions = Some(has_interactions(r)),
        !.total_interactions = Some(total_interactions(r)),
        !.is_follower = DefaultIsFollower(@)]

\* the loop of finalize_follower_data from record i on; exc: the call of
\* infer_discovery_method raised, which ends the loop with the records
\* after i untouched
RECURSIVE FinalizeFrom(_, _, _)
FinalizeFrom(f, i, now) ==
    IF i > Len(f) THEN [f |-> f, exc |-> FALSE]
    ELSE IF InferRaises(f[i])
    THEN [f |-> [f EXCEPT ![i] = ScoredRecord(f[i], now)], exc |-> TRUE]
    ELSE FinalizeFrom([f EXCEPT ![i] = FinalizedRecord(f[i], now)],
                      i + 1, now)

----------------------------------------------------------------------------
(* Spec: one run of process_instagram_data *)

\* the values datetime.now() is drawn from: timestamp 2 is the last second
\* inside the 30-day window, or the last second inside the 90-day window
Nows == {30 * SecondsPerDay + 1, 90 * SecondsPerDay + 1}

Init ==
    /\ pc = "start"
    /\ text = <<>>
    /\ result = <<>>
    /\ followers = <<>>
    /\ steps = <<>>
    \* data_directory / "connections" is read only when instagram-photia
    \* does not exist
    /\ layout \in {l \in [photia : BOOLEAN, photia_connections : BOOLEAN,
                          connections : BOOLEAN] :
                      /\ l.photia_connections => l.photia
                      /\ l.photia => ~l.connections}
    /\ consumed = 0
    /\ entry = None
    /\ progress = <<>>
    /\ written = {}
    /\ results = None

\* the layout check raises ValueError
LayoutRefused(l) == ~l.photia /\ ~l.connections

\* base_dir / "connections" exists
HasConnections(l) ==
    IF l.photia THEN l.photia_connections ELSE l.connections

\* the layout check, and the first progress report
Start ==
    /\ pc = "start"
    /\ pc' = IF LayoutRefused(layout) THEN "config_error" ELSE "followers"
    /\ progress' = IF LayoutRefused(layout) THEN progress
                   ELSE Append(progress, 5)
    /\ UNCHANGED <<text, result, followers, steps, layout, consumed, entry,
                   written, results>>

\* the stage that follows a loading stage
NextStage(stage) ==
    CASE stage = "followers" -> "comments"
      [] stage = "comments" -> "inbox"
      [] stage = "inbox" -> "story_likes"
      [] stage = "story_likes" -> "emoji_reactions"
      [] stage = "emoji_reactions" -> "countdowns"
      [] stage = "countdowns" -> "message_requests"
      [] stage = "message_requests" -> "pending"
      [] stage = "pending" -> "recent"
      [] stage = "recent" -> "unfollowed"
      [] stage = "unfollowed" -> "finalize"

\* a mutant of Reported: the reports of the inbox and of the story
\* interactions are exchanged
ReportedExchanged(stage) ==
    CASE stage = "followers" -> <<15>>
      [] stage = "comments" -> <<30>>
      [] stage = "inbox" -> <<65>>
      [] stage = "countdowns" -> <<50>>
      [] stage = "unfollowed" -> <<80>>
      [] OTHER -> <<>>

\* the progress reports between the end of a stage and the next stage
Reported(stage) ==
    CASE stage = "followers" -> <<15>>
      [] stage = "comments" -> <<30>>
      [] stage = "inbox" -> <<50>>
      [] stage = "countdowns" -> <<65>>
      [] stage = "unfollowed" -> <<80>>
      [] OTHER -> <<>>

LoadingStages ==
    {"followers", "comments", "inbox", "story_likes", "emoji_reactions",
     "countdowns", "message_requests", "pending", "recent", "unfollowed"}

\* a step that reads entry e and leaves the mapping f; the stage goes on
\* unless the step raised, which ends the reading of the file
Read(e, f, exc) ==
    /\ consumed < MaxEntries
    /\ consumed' = consumed + 1
    /\ entry' = Some([stage |-> pc, e |-> e])
    /\ followers' = f
    /\ pc' = IF exc THEN NextStage(pc) ELSE pc
    /\ progress' = IF exc THEN progress \o Reported(pc) ELSE progress
    /\ UNCHANGED <<text, result, steps, layout, written, results>>

\* the source of the stage has no (more) entries, or does not exist
EndOfSource ==
    /\ pc \in LoadingStages
    /\ pc' = NextStage(pc)
    /\ progress' = progress \o Reported(pc)
    /\ entry' = None
    /\ UNCHANGED <<text, result, followers, steps, layout, consumed, written,
                   results>>

LoadFollowers ==
    /\ pc = "followers"
    /\ HasConnections(layout)
    /\ \E e \in FollowerEntries : Read(e, FollowerEntry(followers, e), FALSE)

LoadComments ==
    /\ pc = "comments"
    /\ \E e \in CommentEntries :
          LET r == CommentEntry(followers, e) IN Read(e, r.f, r.exc)

LoadMessages ==
    /\ pc = "inbox"
    /\ \E c \in Conversations : Read(c, InboxConversation(followers, c), FALSE)

LoadStoryInteractions ==
    /\ pc \in {"story_likes", "emoji_reactions", "countdowns"}
    /\ \E e \in StoryEntries : Read(e, StoryEntry(followers, e, pc), FALSE)

LoadMessageRequests ==
    /\ pc = "message_requests"
    /\ \E c \in Conversations :
          Read(c, MessageRequestConversation(followers, c), FALSE)

LoadPendingRequests ==
    /\ pc = "pending"
    /\ HasConnections(layout)
    /\ \E e \in RequestEntries : Read(e, PendingEntry(followers, e), FALSE)

LoadRecentRequests ==
    /\ pc = "recent"
    /\ HasConnections(layout)
    /\ \E e \in RequestEntries : Read(e, RecentEntry(followers, e), FALSE)

LoadRecentlyUnfollowed ==
    /\ pc = "unfollowed"
    /\ HasConnections(layout)
    /\ \E e \in RequestEntries : Read(e, UnfollowedEntry(followers, e), FALSE)

\* `f.get('is_follower', True)`
IsFollowerOrDefault(r) == r.is_follower # Some(FALSE)

\* `f.get('has_interactions')`
HasInteractions(r) == r.has_interactions = Some(TRUE)

followers_count(f) ==
    Cardinality({i \in 1..Len(f) : IsFollowerOrDefault(f[i])})

non_followers_count(f) ==
    Cardinality({i \in 1..Len(f) : ~IsFollowerOrDefault(f[i])})

entries_with_interactions(f) ==
    Cardinality({i \in 1..Len(f) : HasInteractions(f[i])})

\* finalize_follower_data and the results dict; an exception of the
\* finalizer leaves process_instagram_data
Finalize ==
    /\ pc = "finalize"
    /\ \E now \in Nows :
          LET r == FinalizeFrom(followers, 1, now)
          IN /\ followers' = r.f
             /\ pc' = IF r.exc THEN "raised" ELSE "export_jsonl"
             /\ results' =
                  IF r.exc THEN None
                  ELSE Some([total_entries |-> Len(r.f),
                             followers_count |-> followers_count(r.f),
                             non_followers_count |->
                                 non_followers_count(r.f),
                             entries_with_interactions |->
                                 entries_with_interactions(r.f),
                             output_files |-> <<>>])
    /\ entry' = None
    /\ UNCHANGED <<text, result, steps, layout, consumed, progress, written>>

\* x[1].get('engagement_score', 0)
SortKey(r) == IF r.engagement_score = None THEN 0 ELSE r.engagement_score[1]

\* a mutant of SortedPlace: records of equal score come out in the reverse
\* of their insertion order
SortedPlaceReversed(f, i) ==
    Cardinality({j \in 1..Len(f) :
                    \/ SortKey(f[j]) > SortKey(f[i])
                    \/ SortKey(f[j]) = SortKey(f[i]) /\ j > i}) + 1

\* the place of record i in sorted(..., key = engagement_score,
\* reverse = True): the sort is stable, so records of equal score keep
\* their order
SortedPlace(f, i) ==
    Cardinality({j \in 1..Len(f) :
                    \/ SortKey(f[j]) > SortKey(f[i])
                    \/ SortKey(f[j]) = SortKey(f[i]) /\ j < i}) + 1

sorted_followers(f) ==
    [k \in 1..Len(f) |-> f[CHOOSE i \in 1..Len(f) : SortedPlace(f, i) = k]]

\* the keys of a record and of its nested dicts
TopKeys ==
    <<"username", "follow_date", "is_follower", "status", "comments",
      "messages", "story_interactions", "engagement_score",
      "inferred_discovery_method", "has_interactions", "total_interactions">>

NestedKeys == {"comments", "messages", "story_interactions"}

KeysOf(key) ==
    CASE key = "comments" ->
           <<"total_comments", "first_comment_timestamp",
             "last_comment_timestamp", "sample_comments">>
      [] key = "messages" ->
           <<"has_messaged", "message_count", "first_message_timestamp",
             "last_message_timestamp", "initiated_conversation",
             "message_request_count">>
      [] key = "story_interactions" ->
           <<"story_likes_count", "emoji_reactions_count",
             "countdown_interactions_count",
             "last_story_interaction_timestamp">>

\* the keys whose value may be None (or that may be absent)
OptionalKeys ==
    {"follow_date", "is_follower", "status", "comments", "messages",
     "story_interactions", "engagement_score", "inferred_discovery_method",
     "has_interactions", "total_interactions", "first_comment_timestamp",
     "last_comment_timestamp", "first_message_timestamp",
     "last_message_timestamp", "message_request_count",
     "last_story_interaction_timestamp"}

\* `value is None`
IsNone(d, k) == k \in OptionalKeys /\ d[k] = None

\* the value of a key that is not None
ValueOf(d, k) == IF k \in OptionalKeys THEN d[k][1] ELSE d[k]

Pairs(d, kept) ==
    [i \in 1..Len(kept) |-> [key |-> kept[i], value |-> ValueOf(d, kept[i])]]

\* a mutant of cleaned_value: the None values of a nested dict are written
\* as null
cleaned_valueWithNull(value, keys) ==
    [i \in 1..Len(keys) |->
        [key |-> keys[i],
         value |-> IF IsNone(value, keys[i]) THEN "null"
                   ELSE ValueOf(value, keys[i])]]

\* {k: v for k, v in value.items() if v is not None}, as the JSON object
\* written: its members in order
cleaned_value(value, keys) ==
    Pairs(value, SelectSeq(keys, LAMBDA k : ~IsNone(value, k)))

\* cleaned_data of a record, as the JSON object json.dumps writes: a None
\* value is left out, a nested dict is cleaned and left out when nothing of
\* it remains.  Numbers, strings, booleans and lists are written as they are.
cleaned_data(r) ==
    LET kept == SelectSeq(TopKeys,
                    LAMBDA k : /\ ~IsNone(r, k)
                               /\ k \in NestedKeys =>
                                    cleaned_value(r[k][1], KeysOf(k)) # <<>>)
    IN [i \in 1..Len(kept) |->
           [key |-> kept[i],
            value |-> IF kept[i] \in NestedKeys
                      THEN cleaned_value(r[kept[i]][1], KeysOf(kept[i]))
                      ELSE ValueOf(r, kept[i])]]

\* the lines export_to_jsonl writes, one JSON object each
export_to_jsonl(f) ==
    [k \in 1..Len(f) |-> cleaned_data(sorted_followers(f)[k])]

AddOutput(res, file) ==
    Some([res[1] EXCEPT !.output_files = Append(@, file)])

\* the JSONL export, when export_jsonl is set
ExportJsonl ==
    /\ pc = "export_jsonl"
    /\ \E export_jsonl \in BOOLEAN :
          /\ progress' = IF export_jsonl THEN Append(progress, 85)
                         ELSE progress
          /\ written' = IF export_jsonl
                        THEN written \cup
                             {[file |-> "jsonl",
                               lines |-> export_to_jsonl(followers)]}
                        ELSE written
          /\ results' = IF export_jsonl THEN AddOutput(results, "jsonl")
                        ELSE results
    /\ pc' = "export_excel"
    /\ UNCHANGED <<text, result, followers, steps, layout, consumed, entry>>

\* the values of export_excel and, where export_to_excel reads it, of
\* PANDAS_AVAILABLE
ExcelFlags ==
    {[export_excel |-> FALSE, PANDAS_AVAILABLE |-> FALSE],
     [export_excel |-> TRUE, PANDAS_AVAILABLE |-> FALSE],
     [export_excel |-> TRUE, PANDAS_AVAILABLE |-> TRUE]}

\* the Excel export, when export_excel is set (export_to_excel returns at
\* once when pandas is not available, and its path is listed either way),
\* then the last progress report and the return
ExportExcel ==
    /\ pc = "export_excel"
    /\ \E g \in ExcelFlags :
          /\ progress' = IF g.export_excel THEN progress \o <<90, 100>>
                         ELSE Append(progress, 100)
          /\ written' = IF g.export_excel /\ g.PANDAS_AVAILABLE
                        THEN written \cup {[file |-> "xlsx", lines |-> <<>>]}
                        ELSE written
          /\ results' = IF g.export_excel THEN AddOutput(results, "xlsx")
                        ELSE results
    /\ pc' = "done"
    /\ UNCHANGED <<text, result, followers, steps, layout, consumed, entry>>

Next ==
    \/ Start
    \/ LoadFollowers
    \/ LoadComments
    \/ LoadMessages
    \/ LoadStoryInteractions
    \/ LoadMessageRequests
    \/ LoadPendingRequests
    \/ LoadRecentRequests
    \/ LoadRecentlyUnfollowed
    \/ EndOfSource
    \/ Finalize
    \/ ExportJsonl
    \/ ExportExcel

Spec == Init /\ [][Next]_vars

----------------------------------------------------------------------------
(* Properties of a run of process_instagram_data *)

\* the step read an entry of the source of `stage`
ReadIn(stage) ==
    /\ pc = stage
    /\ consumed' = consumed + 1
    /\ entry' # None

\* the normalized handle of the entry a step read: the value of a request
\* entry, the title of a story entry, the mention of a comment, the other
\* participant of a conversation; None when the entry names nobody
HandleOf(stage, e) ==
    CASE stage = "followers" -> Some(normalize_username(e.value))
      [] stage = "comments" ->
           extract_username_from_comment(fix_double_encoded_unicode(e.text))
      [] stage \in {"inbox", "message_requests"} ->
           IF OtherParticipant(e) = None THEN None
           ELSE Some(normalize_username(OtherParticipant(e)[1]))
      [] stage \in {"story_likes", "emoji_reactions", "countdowns"} ->
           Some(normalize_username(e.title))
      [] stage \in {"pending", "recent", "unfollowed"} ->
           Some(normalize_username(e.value))

\* C2: an entry or conversation whose handle normalizes to the empty string
\* is never matched to a record and never creates one: the step that reads
\* it leaves the mapping as it was, so the key "" never appears and no
\* record is updated for an empty identity.
C2_EmptyIdentityIgnored ==
    [][(\E stage \in LoadingStages :
            /\ ReadIn(stage)
            /\ HandleOf(stage, entry'[1].e) = Some(<<>>))
       => followers' = followers]_vars

\* C5 as stated: a message-request conversation with at least one message
\* whose normalized handle is not a key of the mapping creates a record
\* keyed by the handle, is_follower false, status message_request_only,
\* message_request_count = message_count = the number of messages.
C5_LeadForAbsentKey ==
    [][(/\ ReadIn("message_requests")
        /\ entry'[1].e.messages # <<>>
        /\ HandleOf("message_requests", entry'[1].e) # None
        /\ ~HasKey(followers, HandleOf("message_requests", entry'[1].e)[1]))
       => LET h == HandleOf("message_requests", entry'[1].e)[1]
          IN /\ HasKey(followers', h)
             /\ Len(followers') = Len(followers) + 1
             /\ Get(followers', h).is_follower = Some(FALSE)
             /\ Get(followers', h).status = Some("message_request_only")
             /\ Get(followers', h).messages[1].message_request_count
                   = Some(Len(entry'[1].e.messages))
             /\ Get(followers', h).messages[1].message_count
                   = Len(entry'[1].e.messages)]_vars

\* C5, amended: a message-request conversation with at least one message
\* whose normalized handle matches no key of the mapping, neither exactly
\* nor as a substring in either direction, creates a record keyed by the
\* handle, is_follower false, status message_request_only,
\* message_request_count = message_count = the number of messages.
C5_LeadForUnmatched ==
    [][(/\ ReadIn("message_requests")
        /\ entry'[1].e.messages # <<>>
        /\ HandleOf("message_requests", entry'[1].e) # None
        /\ MatchUsername(followers,
                         HandleOf("message_requests", entry'[1].e)[1]) = None)
       => LET h == HandleOf("message_requests", entry'[1].e)[1]
          IN /\ HasKey(followers', h)
             /\ Len(followers') = Len(followers) + 1
             /\ Get(followers', h).is_follower = Some(FALSE)
             /\ Get(followers', h).status = Some("message_request_only")
             /\ Get(followers', h).messages[1].message_request_count
                   = Some(Len(entry'[1].e.messages))
             /\ Get(followers', h).messages[1].message_count
                   = Len(entry'[1].e.messages)]_vars

\* a message-request conversation of "x", with an undated message, was read
\* on a mapping that holds another key, and "x" is now a lead
C5_Witness ==
    /\ pc = "message_requests"
    /\ entry # None
    /\ entry[1].stage = "message_requests"
    /\ HandleOf("message_requests", entry[1].e) = Some(<<120>>)
    /\ \E i \in 1..Len(entry[1].e.messages) :
          entry[1].e.messages[i].timestamp_ms = 0
    /\ Len(followers) = 2
    /\ followers[2].username = <<120>>
    /\ followers[2].is_follower = Some(FALSE)
    /\ followers[2].status = Some("message_request_only")
    /\ followers[2].messages[1].message_request_count
          = Some(Len(entry[1].e.messages))
    /\ followers[2].messages[1].message_count = Len(entry[1].e.messages)

\* the keys of the mapping in insertion order
KeyOrder(f) == [i \in 1..Len(f) |-> f[i].username]

C7_NoExceptionEscapes == pc # "raised"

\* C8: when neither data_directory/connections nor
\* data_directory/instagram-photia/connections exists, the run fails with
\* ValueError before it loads anything, reports progress or writes output.
C8_RefusedWithoutConnections ==
    (layout # None /\ ~layout.connections /\ ~layout.photia_connections)
    => /\ pc \in {"start", "config_error"}
       /\ progress = <<>>
       /\ written = {}
       /\ followers = <<>>

\* C9 as stated: once the status of a record is set, no later step of the
\* run changes it to a different value.
C9_StatusNeverChanges ==
    [][\A i \in 1..Len(followers) :
          followers[i].status # None
          => followers'[i].status = followers[i].status]_vars

\* C9, amended: once the status of a record is set, a later step changes it
\* only to pending_request, in the pending step, or to recently_unfollowed,
\* in the unfollow step; the recent step and the finalizer write the status
\* only when it is absent.
C9_StatusChangesOnlyByOverwrite ==
    [][\A i \in 1..Len(followers) :
          (followers[i].status # None
           /\ followers'[i].status # followers[i].status)
          => \/ /\ pc = "pending"
                /\ followers'[i].status = Some("pending_request")
             \/ /\ pc = "unfollowed"
                /\ followers'[i].status = Some("recently_unfollowed")]_vars

\* the pending step overwrote the status of a lead
C9_Witness ==
    /\ entry # None
    /\ entry[1].stage = "pending"
    /\ \E i \in 1..Len(followers) :
          /\ followers[i].username = normalize_username(entry[1].e.value)
          /\ followers[i].is_follower = Some(FALSE)
          /\ followers[i].status = Some("pending_request")

\* the counters of a record, an absent one counting 0
Counters(r) ==
    <<IF r.comments = None THEN 0 ELSE r.comments[1].total_comments,
      IF r.messages = None THEN 0 ELSE r.messages[1].message_count,
      IF r.messages = None \/ r.messages[1].message_request_count = None
      THEN 0 ELSE r.messages[1].message_request_count[1],
      IF r.story_interactions = None THEN 0
      ELSE r.story_interactions[1].story_likes_count,
      IF r.story_interactions = None THEN 0
      ELSE r.story_interactions[1].emoji_reactions_count,
      IF r.story_interactions = None THEN 0
      ELSE r.story_interactions[1].countdown_interactions_count>>

\* C10: no step of the run leaves a counter of a record lower than it was
\* before the step.
C10_CountersNeverDecrease ==
    [][\A i \in 1..Len(followers) :
          \A c \in 1..6 :
              Counters(followers'[i])[c] >= Counters(followers[i])[c]]_vars

\* the handles the identity loader stored: its records have a follow date,
\* the records the message-request enricher creates have none
LoadedHandles(f) ==
    {f[i].username : i \in {j \in 1..Len(f) : f[j].follow_date # None}}

\* C16: the identity loader creates records with a follow date and no
\* is_follower flag; the message-request enricher creates records without
\* a follow date, with is_follower false, under a key that is no loaded
\* handle; no other step creates a record, and none changes where a record
\* comes from.  After finalization a record has is_follower false if and
\* only if the message-request enricher created it, and every record of
\* the identity loader has is_follower true.
C16_NonFollowersAreLeads ==
    [][/\ \A i \in 1..Len(followers) :
             /\ followers'[i].username = followers[i].username
             /\ (followers'[i].follow_date = None)
                   = (followers[i].follow_date = None)
       /\ \A i \in (Len(followers) + 1)..Len(followers') :
             \/ /\ pc = "followers"
                /\ followers'[i].follow_date # None
                /\ followers'[i].is_follower = None
             \/ /\ pc = "message_requests"
                /\ followers'[i].follow_date = None
                /\ followers'[i].is_follower = Some(FALSE)
                /\ followers'[i].username \notin LoadedHandles(followers)
       /\ pc' \in {"export_jsonl", "export_excel", "done"} =>
             \A i \in 1..Len(followers') :
                 /\ followers'[i].is_follower # None
                 /\ (followers'[i].is_follower = Some(FALSE))
                       = (followers'[i].follow_date = None)
                 /\ followers'[i].is_follower = Some(FALSE) =>
                       followers'[i].username \notin LoadedHandles(followers')
      ]_vars

\* a finalized mapping holds a follower and a lead
C16_Witness ==
    /\ pc = "export_jsonl"
    /\ Len(followers) = 2
    /\ followers[1].follow_date # None
    /\ followers[1].is_follower = Some(TRUE)
    /\ followers[2].follow_date = None
    /\ followers[2].is_follower = Some(FALSE)
    /\ followers[2].status = Some("message_request_only")

----------------------------------------------------------------------------
(* The mappings load_followers can return *)

RECURSIVE LoadAll(_, _)
LoadAll(f, entries) ==
    IF entries = <<>> THEN f
    ELSE LoadAll(FollowerEntry(f, Head(entries)), Tail(entries))

LoadedMappings ==
    {LoadAll(<<>>, es) : es \in SeqsUpTo(FollowerEntries, MaxLoaded)}

----------------------------------------------------------------------------
(* SpecComments: load_comments on a mapping load_followers returned;      *)
(* steps is the list of the entries read                                  *)

InitComments ==
    /\ pc = "load_comments"
    /\ text = <<>>
    /\ result = <<>>
    /\ followers \in LoadedMappings
    /\ steps = <<>>
    /\ layout = None
    /\ consumed = 0
    /\ entry = None
    /\ progress = <<>>
    /\ written = {}
    /\ results = None

\* one entry of the comments file; an exception ends the reading
ReadComment ==
    /\ pc = "load_comments"
    /\ Len(steps) < MaxComments
    /\ \E e \in CommentEntries :
          LET r == CommentEntry(followers, e)
          IN /\ followers' = r.f
             /\ steps' = Append(steps, e)
             /\ pc' = IF r.exc THEN "load_comments_raised" ELSE pc
    /\ UNCHANGED <<text, result, layout, consumed, entry, progress, written,
                   results>>

NextComments == ReadComment

SpecComments == InitComments /\ [][NextComments]_vars

\* the entries of a list of comment entries that mention username
Mentioning(entries, username) ==
    SelectSeq(entries,
              LAMBDA e : extract_username_from_comment(
                             fix_double_encoded_unicode(e.text))
                         = Some(username))

TimestampsOf(entries) == {entries[i].timestamp : i \in 1..Len(entries)}

\* C3: once the comment enricher has processed comments that mention the
\* same existing username, each with a non-zero (numeric) timestamp, in any
\* order, first_comment_timestamp is the least timestamp,
\* last_comment_timestamp the greatest and total_comments their number.
C3_CommentBounds ==
    pc \in {"load_comments", "load_comments_raised"} =>
        \A i \in 1..Len(followers) :
            LET mine == Mentioning(steps, followers[i].username)
            IN (mine # <<>> /\ TimestampsOf(mine) \subseteq 1..2) =>
                  /\ followers[i].comments # None
                  /\ followers[i].comments[1].total_comments = Len(mine)
                  /\ followers[i].comments[1].first_comment_timestamp
                        = Some(SetMin(TimestampsOf(mine)))
                  /\ followers[i].comments[1].last_comment_timestamp
                        = Some(SetMax(TimestampsOf(mine)))

\* two comments for the same username were processed, the later one first
C3_Witness ==
    /\ pc = "load_comments"
    /\ Len(steps) = 2
    /\ steps[1].timestamp = 2
    /\ steps[2].timestamp = 1
    /\ \E i \in 1..Len(followers) :
          /\ Len(Mentioning(steps, followers[i].username)) = 2
          /\ followers[i].comments # None
          /\ followers[i].comments[1].first_comment_timestamp = Some(1)
          /\ followers[i].comments[1].last_comment_timestamp = Some(2)
          /\ followers[i].comments[1].total_comments = 2

----------------------------------------------------------------------------
(* SpecStatus: the status steps of load_follow_requests and               *)
(* load_recently_unfollowed, applied in any order to a mapping            *)
(* load_followers returned; steps is the list of the steps applied        *)

InitStatus ==
    /\ pc = "status"
    /\ text = <<>>
    /\ result = <<>>
    /\ followers \in LoadedMappings
    /\ steps = <<>>
    /\ layout = None
    /\ consumed = 0
    /\ entry = None
    /\ progress = <<>>
    /\ written = {}
    /\ results = None

Applied(step, e, f) ==
    /\ pc = "status"
    /\ Len(steps) < MaxSteps
    /\ followers' = f
    /\ steps' = Append(steps, [step |-> step, e |-> e])
    /\ UNCHANGED <<pc, text, result, layout, consumed, entry, progress,
                   written, results>>

ApplyPending ==
    \E e \in RequestEntries : Applied("pending", e, PendingEntry(followers, e))

ApplyRecent ==
    \E e \in RequestEntries : Applied("recent", e, RecentEntry(followers, e))

ApplyUnfollowed ==
    \E e \in RequestEntries :
        Applied("unfollowed", e, UnfollowedEntry(followers, e))

NextStatus == ApplyPending \/ ApplyRecent \/ ApplyUnfollowed

SpecStatus == InitStatus /\ [][NextStatus]_vars

\* the steps applied to username, in order
StepsOn(username) ==
    LET mine == SelectSeq(steps,
                          LAMBDA s : normalize_username(s.e.value) = username)
    IN [i \in 1..Len(mine) |-> mine[i].step]

\* C4: on an existing username with no status, pending then recent then
\* unfollow leaves recently_unfollowed; recent then pending leaves
\* pending_request, and so does pending then recent (pending and unfollow
\* write unconditionally, recent only when no status is present).
C4_StatusOrder ==
    pc = "status" =>
        \A i \in 1..Len(followers) :
            LET ops == StepsOn(followers[i].username)
            IN /\ ops = <<"pending", "recent", "unfollowed">> =>
                     followers[i].status = Some("recently_unfollowed")
               /\ ops = <<"recent", "pending">> =>
                     followers[i].status = Some("pending_request")
               /\ ops = <<"pending", "recent">> =>
                     followers[i].status = Some("pending_request")
               /\ ops = <<"recent">> =>
                     followers[i].status = Some("recent_request")

\* recent then pending was applied to a username
C4_Witness ==
    /\ pc = "status"
    /\ \E i \in 1..Len(followers) :
          /\ StepsOn(followers[i].username) = <<"recent", "pending">>
          /\ followers[i].status = Some("pending_request")

----------------------------------------------------------------------------
(* SpecDates: load_messages, then load_message_requests, on a mapping     *)
(* load_followers returned, reading conversations whose timestamp_ms may  *)
(* be the JSON literal NaN                                                 *)

\* most conversations read in SpecDates
MaxDated == 2

DatedMessages ==
    {[sender_name |-> <<97, 98>>, timestamp_ms |-> t] :
        t \in {NaN, 1000, 2000}}

\* conversations of the owner with "A"
DatedConversations ==
    {[participants |-> <<OwnerName, <<65>>>>, folder |-> <<49>>,
      messages |-> m] : m \in SeqsUpTo(DatedMessages, MaxMsgs)}

InitDates ==
    /\ pc = "dates_inbox"
    /\ text = <<>>
    /\ result = <<>>
    /\ followers \in LoadedMappings
    /\ steps = <<>>
    /\ layout = None
    /\ consumed = 0
    /\ entry = None
    /\ progress = <<>>
    /\ written = {}
    /\ results = None

\* a folder of the inbox
ReadDatedInbox ==
    /\ pc = "dates_inbox"
    /\ consumed < MaxDated
    /\ \E c \in DatedConversations :
          /\ followers' = InboxConversation(followers, c)
          /\ entry' = Some([stage |-> "inbox", e |-> c])
    /\ consumed' = consumed + 1
    /\ UNCHANGED <<pc, text, result, steps, layout, progress, written,
                   results>>

\* the inbox has no more folders
EndDatedInbox ==
    /\ pc = "dates_inbox"
    /\ pc' = "dates_requests"
    /\ entry' = None
    /\ UNCHANGED <<text, result, followers, steps, layout, consumed,
                   progress, written, results>>

\* a folder of message_requests
ReadDatedRequest ==
    /\ pc = "dates_requests"
    /\ consumed < MaxDated
    /\ \E c \in DatedConversations :
          /\ followers' = MessageRequestConversation(followers, c)
          /\ entry' = Some([stage |-> "message_requests", e |-> c])
    /\ consumed' = consumed + 1
    /\ UNCHANGED <<pc, text, result, steps, layout, progress, written,
                   results>>

NextDates == ReadDatedInbox \/ EndDatedInbox \/ ReadDatedRequest

SpecDates == InitDates /\ [][NextDates]_vars

\* a <= b on numbers: every comparison with NaN is false
AtMost(a, b) == a # NaN /\ b # NaN /\ a <= b

\* C11: in every state of a run, for every record, when the first and the
\* last comment timestamps are both set first <= last, and when the first
\* and the last message timestamps are both set first <= last.
C11_FirstBeforeLast ==
    \A i \in 1..Len(followers) :
        /\ (/\ followers[i].comments # None
            /\ followers[i].comments[1].first_comment_timestamp # None
            /\ followers[i].comments[1].last_comment_timestamp # None)
           => AtMost(followers[i].comments[1].first_comment_timestamp[1],
                     followers[i].comments[1].last_comment_timestamp[1])
        /\ (/\ followers[i].messages # None
            /\ followers[i].messages[1].first_message_timestamp # None
            /\ followers[i].messages[1].last_message_timestamp # None)
           => AtMost(followers[i].messages[1].first_message_timestamp[1],
                     followers[i].messages[1].last_message_timestamp[1])

----------------------------------------------------------------------------
(* SpecScore: the interactions of one follower, "ab", through the         *)
(* comment, inbox and story enrichers, and then the finalizer; steps      *)
(* holds the value of datetime.now() the finalizer read                   *)

\* most interactions read in SpecScore
MaxScored == 6

ScoredComments == [text : {<<120, 64, 97, 98, 33>>}, timestamp : {0, 2}]

\* conversations in folder "ab_1": the owner is the only participant
ScoredMessages ==
    {[sender_name |-> <<97, 98>>, timestamp_ms |-> 1000],
     [sender_name |-> OwnerName, timestamp_ms |-> 2000],
     [sender_name |-> <<97, 98>>, timestamp_ms |-> 0]}

ScoredConversations ==
    {[participants |-> <<OwnerName>>, folder |-> <<97, 98, 95, 49>>,
      messages |-> <<m>>] : m \in ScoredMessages}

ScoredStories == [title : {<<97, 98>>}, timestamp : {0, 1}]

InitScore ==
    /\ pc = "score_comments"
    /\ text = <<>>
    /\ result = <<>>
    /\ followers = FollowerEntry(<<>>, [value |-> <<97, 98>>, timestamp |-> 0])
    /\ steps = <<>>
    /\ layout = None
    /\ consumed = 0
    /\ entry = None
    /\ progress = <<>>
    /\ written = {}
    /\ results = None

Interaction(f) ==
    /\ consumed < MaxScored
    /\ consumed' = consumed + 1
    /\ followers' = f
    /\ UNCHANGED <<pc, text, result, steps, layout, entry, progress, written,
                   results>>

ScoreComment ==
    /\ pc = "score_comments"
    /\ \E e \in ScoredComments : Interaction(CommentEntry(followers, e).f)

ScoreConversation ==
    /\ pc = "score_inbox"
    /\ \E c \in ScoredConversations :
          Interaction(InboxConversation(followers, c))

\* an entry of one of the three story files
ScoreStory ==
    /\ pc = "score_stories"
    /\ \E e \in ScoredStories :
          \E source \in {"story_likes", "emoji_reactions", "countdowns"} :
              Interaction(StoryEntry(followers, e, source))

\* the enricher has read its source
ScoreNextStage ==
    /\ pc \in {"score_comments", "score_inbox", "score_stories"}
    /\ pc' = CASE pc = "score_comments" -> "score_inbox"
               [] pc = "score_inbox" -> "score_stories"
               [] pc = "score_stories" -> "score_finalize"
    /\ UNCHANGED <<text, result, followers, steps, layout, consumed, entry,
                   progress, written, results>>

ScoreFinalize ==
    /\ pc = "score_finalize"
    /\ \E now \in Nows :
          /\ followers' = FinalizeFrom(followers, 1, now).f
          /\ steps' = <<now>>
    /\ pc' = "scored"
    /\ UNCHANGED <<text, result, layout, consumed, entry, progress, written,
                   results>>

NextScore ==
    \/ ScoreComment
    \/ ScoreConversation
    \/ ScoreStory
    \/ ScoreNextStage
    \/ ScoreFinalize

SpecScore == InitScore /\ [][NextScore]_vars

\* R(t): 10 if t is set and less than 30 days before now, 5 if less than 90
\* days before now, else 0
RecencyBonus(t, now) ==
    IF t = None THEN 0
    ELSE IF now - t[1] < 30 * 86400 THEN 10
    ELSE IF now - t[1] < 90 * 86400 THEN 5
    ELSE 0

\* C12: engagement_score = 2*total_comments + 3*message_count
\* + (5 if initiated_conversation) + story_likes_count
\* + emoji_reactions_count + countdown_interactions_count
\* + R(last_comment_timestamp) + R(last_message_timestamp), the two
\* recency bonuses being added independently.
C12_EngagementScore ==
    pc = "scored" =>
        \A i \in 1..Len(followers) :
            LET r == followers[i]
                c == IF r.comments = None THEN NewComments ELSE r.comments[1]
                m == IF r.messages = None THEN NewInboxMessages
                     ELSE r.messages[1]
                y == IF r.story_interactions = None THEN NewStoryInteractions
                     ELSE r.story_interactions[1]
            IN r.engagement_score =
                 Some(2 * c.total_comments + 3 * m.message_count
                      + (IF m.initiated_conversation THEN 5 ELSE 0)
                      + y.story_likes_count + y.emoji_reactions_count
                      + y.countdown_interactions_count
                      + RecencyBonus(c.last_comment_timestamp, steps[1])
                      + RecencyBonus(m.last_message_timestamp, steps[1]))

\* 3 comments, the last inside the 30-day window; 1 message that initiated
\* the conversation, outside the 30-day and inside the 90-day window;
\* 2 story likes: the score is 31
C12_Witness ==
    /\ pc = "scored"
    /\ steps = <<30 * 86400 + 1>>
    /\ followers[1].comments # None
    /\ followers[1].comments[1].total_comments = 3
    /\ followers[1].comments[1].last_comment_timestamp = Some(2)
    /\ followers[1].messages # None
    /\ followers[1].messages[1].message_count = 1
    /\ followers[1].messages[1].initiated_conversation
    /\ followers[1].messages[1].last_message_timestamp = Some(1)
    /\ followers[1].story_interactions # None
    /\ followers[1].story_interactions[1].story_likes_count = 2
    /\ followers[1].story_interactions[1].emoji_reactions_count = 0
    /\ followers[1].story_interactions[1].countdown_interactions_count = 0
    /\ followers[1].engagement_score = Some(31)

\* C13: in every state reached while comments are processed, the
\* sample_comments list of every record has at most 5 entries, whatever
\* number of comments match the username.
C13_AtMostFiveSamples ==
    \A i \in 1..Len(followers) :
        followers[i].comments # None =>
            Len(followers[i].comments[1].sample_comments) <= 5

\* six dated comments matched one username, and five samples are kept
C13_Witness ==
    /\ pc = "score_comments"
    /\ followers[1].comments # None
    /\ followers[1].comments[1].total_comments = 6
    /\ followers[1].comments[1].last_comment_timestamp = Some(2)
    /\ Len(followers[1].comments[1].sample_comments) = 5
    /\ \A k \in 1..5 : followers[1].comments[1].sample_comments[k].date = 2

----------------------------------------------------------------------------
(* Properties of the line-delimited export *)

\* a JSON object read back: the value of each of its keys
ParseObject(pairs) ==
    [k \in {pairs[i].key : i \in 1..Len(pairs)} |->
        pairs[SetMax({i \in 1..Len(pairs) : pairs[i].key = k})].value]

\* json.loads of a line of the export
json_loads(line) ==
    [k \in DOMAIN ParseObject(line) |->
        IF k \in NestedKeys THEN ParseObject(ParseObject(line)[k])
        ELSE ParseObject(line)[k]]

\* the parsed object p has the keys of dict d that are not None, and no
\* other key, each that is not a nested dict with its value
SameFields(d, p, keys) ==
    /\ DOMAIN p \subseteq {keys[i] : i \in 1..Len(keys)}
    /\ \A i \in 1..Len(keys) :
          IF IsNone(d, keys[i]) THEN keys[i] \notin DOMAIN p
          ELSE /\ keys[i] \in DOMAIN p
               /\ keys[i] \notin NestedKeys => p[keys[i]] = ValueOf(d, keys[i])

\* the record of the mapping a parsed line belongs to
RecordOf(p) == CHOOSE i \in 1..Len(followers) : followers[i].username = p.username

\* C14: the export writes exactly one line per record, and parsing a line
\* gives the record without its None-valued keys, at the top level and
\* inside each nested structure: every other field is there with its
\* value, and no other field is.
C14_ExportRoundTrip ==
    \A w \in written :
        w.file = "jsonl" =>
            /\ Len(w.lines) = Len(followers)
            /\ \A i \in 1..Len(followers) :
                  LET mine == {j \in 1..Len(w.lines) :
                                  json_loads(w.lines[j]).username
                                  = followers[i].username}
                  IN /\ Cardinality(mine) = 1
                     /\ \A j \in mine :
                           /\ SameFields(followers[i], json_loads(w.lines[j]),
                                         TopKeys)
                           /\ \A k \in NestedKeys :
                                 ~IsNone(followers[i], k) =>
                                     SameFields(followers[i][k][1],
                                                json_loads(w.lines[j])[k],
                                                KeysOf(k))

\* two records were exported; the line of one of them has a messages object
\* without first_message_timestamp, and no comments key
C14_Witness ==
    \E w \in written :
        /\ w.file = "jsonl"
        /\ Len(w.lines) = 2
        /\ \E j \in 1..2 :
              /\ "messages" \in DOMAIN json_loads(w.lines[j])
              /\ "first_message_timestamp"
                    \notin DOMAIN json_loads(w.lines[j]).messages
              /\ "message_count" \in DOMAIN json_loads(w.lines[j]).messages
              /\ "comments" \notin DOMAIN json_loads(w.lines[j])

\* C15: the lines of the export are ordered by engagement_score descending,
\* and two records of equal engagement_score are in the order of their
\* insertion in the mapping.
C15_ExportOrder ==
    \A w \in written :
        w.file = "jsonl" =>
            \A a \in 1..Len(w.lines) : \A b \in 1..Len(w.lines) :
                a < b =>
                    /\ json_loads(w.lines[a]).engagement_score
                          >= json_loads(w.lines[b]).engagement_score
                    /\ json_loads(w.lines[a]).engagement_score
                          = json_loads(w.lines[b]).engagement_score
                       => RecordOf(json_loads(w.lines[a]))
                             < RecordOf(json_loads(w.lines[b]))

\* the record inserted second has the higher score and is exported first
C15_Witness ==
    \E w \in written :
        /\ w.file = "jsonl"
        /\ Len(w.lines) = 2
        /\ json_loads(w.lines[1]).username = followers[2].username
        /\ json_loads(w.lines[1]).engagement_score
              > json_loads(w.lines[2]).engagement_score

----------------------------------------------------------------------------
(* SpecRepair: fix_double_encoded_unicode on the mis-decoding of a text   *)
(* of ASCII and Cyrillic characters                                        *)

\* 'a', DEL, and the first, a middle and the last code point of the
\* Cyrillic block
RepairAlphabet == {97, 127, 1024, 1087, 1279}

\* the text whose code points are the UTF-8 bytes of s, one per byte
RECURSIVE Misdecoded(_)
Misdecoded(s) ==
    IF s = <<>> THEN <<>>
    ELSE (IF Head(s) < 128 THEN <<Head(s)>>
          ELSE <<192 + (Head(s) \div 64), 128 + (Head(s) % 64)>>)
         \o Misdecoded(Tail(s))

InitRepair ==
    /\ pc = "repair"
    /\ text \in StringsUpTo(RepairAlphabet, MaxLen)
    /\ result = <<>>
    /\ followers = <<>>
    /\ steps = <<>>
    /\ layout = None
    /\ consumed = 0
    /\ entry = None
    /\ progress = <<>>
    /\ written = {}
    /\ results = None

Repair ==
    /\ pc = "repair"
    /\ result' = <<fix_double_encoded_unicode(Misdecoded(text))>>
    /\ pc' = "repaired"
    /\ UNCHANGED <<text, followers, steps, layout, consumed, entry, progress,
                   written, results>>

NextRepair == Repair

SpecRepair == InitRepair /\ [][NextRepair]_vars

\* C17: for every string s of ASCII and Cyrillic-block characters, the
\* string whose code points are the UTF-8 bytes of s is repaired to s
\* (U+00D0 U+00BF gives U+043F), and an ASCII-only input is returned
\* unchanged.
C17_RepairInverts ==
    pc = "repaired" => result = <<text>>

\* the two code points U+00D0 U+00BF were repaired to the letter U+043F
C17_Witness ==
    /\ pc = "repaired"
    /\ text = <<1087>>
    /\ Misdecoded(text) = <<208, 191>>
    /\ result = <<<<1087>>>>

----------------------------------------------------------------------------
(* SpecEnrich: process_instagram_data from the inbox stage to the         *)
(* finalization, on a mapping load_followers returned and a comments file *)
(* without entries                                                        *)

\* the mappings load_followers returns for followers of second 2
EnrichMappings ==
    {f \in LoadedMappings :
        \A i \in 1..Len(f) : f[i].follow_date = Some(2)}

InitEnrich ==
    /\ pc = "inbox"
    /\ text = <<>>
    /\ result = <<>>
    /\ followers \in EnrichMappings
    /\ steps = <<>>
    /\ layout = [photia |-> TRUE, photia_connections |-> TRUE,
                 connections |-> FALSE]
    /\ consumed = 0
    /\ entry = None
    /\ progress = <<5, 15, 30>>
    /\ written = {}
    /\ results = None

NextEnrich ==
    \/ LoadMessages
    \/ LoadStoryInteractions
    \/ LoadMessageRequests
    \/ LoadPendingRequests
    \/ LoadRecentRequests
    \/ LoadRecentlyUnfollowed
    \/ EndOfSource
    \/ Finalize

SpecEnrich == InitEnrich /\ [][NextEnrich]_vars

C19_InitiatedBySomeConversation ==
    [][/\ (/\ ReadIn("inbox")
           /\ entry'[1].e.messages # <<>>
           /\ HandleOf("inbox", entry'[1].e) # None
           /\ Truthy(MatchUsername(followers,
                                   HandleOf("inbox", entry'[1].e)[1])))
          => LET k == MatchUsername(followers,
                                    HandleOf("inbox", entry'[1].e)[1])[1]
                 messages == entry'[1].e.messages
                 sender == normalize_username(
                               messages[Len(messages)].sender_name)
             IN IsSubstring(k, sender)
                => Get(followers', k).messages[1].initiated_conversation
       /\ pc = "inbox"
          => \A i \in 1..Len(followers) :
                (/\ followers[i].messages # None
                 /\ followers[i].messages[1].initiated_conversation)
                => /\ followers'[i].messages # None
                   /\ followers'[i].messages[1].initiated_conversation]_vars

\* C20: a non-empty conversation of either message enricher changes the
\* record of the participant when the participant is a key; else the first
\* record, in insertion order, whose key holds the participant or is held
\* by it; else no record; every other record is left as it was.
C20_MatchedRecord ==
    [][\A stage \in {"inbox", "message_requests"} :
          (/\ ReadIn(stage)
           /\ entry'[1].e.messages # <<>>
           /\ HandleOf(stage, entry'[1].e) # None)
          => LET p == HandleOf(stage, entry'[1].e)[1]
                 exact == {i \in 1..Len(followers) :
                              followers[i].username = p}
                 hits == {i \in 1..Len(followers) :
                             \/ IsSubstring(followers[i].username, p)
                             \/ IsSubstring(p, followers[i].username)}
                 expected == IF exact # {} THEN exact
                             ELSE IF hits # {} THEN {SetMin(hits)}
                             ELSE {}
                 named == {i \in expected : followers[i].username # <<>>}
             IN /\ \A i \in 1..Len(followers) :
                      i \notin expected => followers'[i] = followers[i]
                /\ \A i \in named :
                      /\ Len(followers') = Len(followers)
                      /\ followers'[i].messages # None
                /\ (expected = {} /\ stage = "inbox")
                      => followers' = followers
                /\ (expected = {} /\ stage = "message_requests")
                      => /\ Len(followers') = Len(followers) + 1
                         /\ followers'[Len(followers')].username = p]_vars

\* the inbox read a dated conversation with "ab" on a mapping whose keys
\* are "a", then "ab": the record of "ab" holds it, the record of "a" does
\* not
C20_Witness ==
    /\ pc = "inbox"
    /\ entry # None
    /\ entry[1].stage = "inbox"
    /\ HandleOf("inbox", entry[1].e) = Some(<<97, 98>>)
    /\ Len(followers) = 2
    /\ followers[1].username = <<97>>
    /\ followers[2].username = <<97, 98>>
    /\ followers[1].messages = None
    /\ followers[2].messages # None
    /\ followers[2].messages[1].message_count > 0

----------------------------------------------------------------------------
(* Properties of the statuses, checked under SpecEnrich *)

\* C21: an entry of the pending file whose handle is a key leaves the
\* record with status pending_request; a record with status
\* pending_request keeps it to the end of the run unless an entry of the
\* unfollow file names it; and a record comes to status recent_request only
\* by an entry of the recent file that names it, and only from no status.
C21_PendingWinsOverRecent ==
    [][/\ (/\ ReadIn("pending")
           /\ HasKey(followers, HandleOf("pending", entry'[1].e)[1]))
          => Get(followers', HandleOf("pending", entry'[1].e)[1]).status
                = Some("pending_request")
       /\ \A i \in 1..Len(followers) :
             /\ followers[i].status = Some("pending_request")
                => \/ followers'[i].status = Some("pending_request")
                   \/ /\ ReadIn("unfollowed")
                      /\ HandleOf("unfollowed", entry'[1].e)
                            = Some(followers[i].username)
                      /\ followers'[i].status = Some("recently_unfollowed")
             /\ (/\ followers'[i].status = Some("recent_request")
                 /\ followers[i].status # Some("recent_request"))
                => /\ ReadIn("recent")
                   /\ HandleOf("recent", entry'[1].e)
                         = Some(followers[i].username)
                   /\ followers[i].status = None]_vars

\* the recent file names a follower that the pending file named before:
\* the status stays pending_request
C21_Witness ==
    /\ pc = "recent"
    /\ consumed = 2
    /\ entry # None
    /\ entry[1].stage = "recent"
    /\ \E i \in 1..Len(followers) :
          /\ followers[i].username = HandleOf("recent", entry[1].e)[1]
          /\ followers[i].follow_date # None
          /\ followers[i].status = Some("pending_request")

----------------------------------------------------------------------------
(* SpecDiscovery: the comments, the inbox and the message requests of     *)
(* "ab", who follows since second 2, follows without a date, or does not  *)
(* follow, and then the finalizer                                         *)

\* most interactions read in SpecDiscovery
MaxDiscovery == 3

\* the comment "x@ab!"
DiscoveryComments == [text : {<<120, 64, 97, 98, 33>>}, timestamp : {1, 2}]

DiscoveryMessages ==
    {[sender_name |-> <<97, 98>>, timestamp_ms |-> 1000],
     [sender_name |-> OwnerName, timestamp_ms |-> 1000],
     [sender_name |-> OwnerName, timestamp_ms |-> 3000]}

\* conversations in folder "ab_1": the owner is the only participant
DiscoveryConversations ==
    {[participants |-> <<OwnerName>>, folder |-> <<97, 98, 95, 49>>,
      messages |-> <<m>>] : m \in DiscoveryMessages}

InitDiscovery ==
    /\ pc = "discovery_comments"
    /\ text = <<>>
    /\ result = <<>>
    /\ followers \in
          {<<>>} \cup {FollowerEntry(<<>>, [value |-> <<97, 98>>,
                                            timestamp |-> t]) : t \in {0, 2}}
    /\ steps = <<>>
    /\ layout = None
    /\ consumed = 0
    /\ entry = None
    /\ progress = <<>>
    /\ written = {}
    /\ results = None

\* a step of an enricher that leaves the mapping f
DiscoveryRead(f) ==
    /\ consumed < MaxDiscovery
    /\ consumed' = consumed + 1
    /\ followers' = f
    /\ UNCHANGED <<pc, text, result, steps, layout, entry, progress, written,
                   results>>

DiscoveryComment ==
    /\ pc = "discovery_comments"
    /\ \E e \in DiscoveryComments : DiscoveryRead(CommentEntry(followers, e).f)

DiscoveryConversation ==
    /\ pc = "discovery_inbox"
    /\ \E c \in DiscoveryConversations :
          DiscoveryRead(InboxConversation(followers, c))

DiscoveryRequest ==
    /\ pc = "discovery_requests"
    /\ \E c \in DiscoveryConversations :
          DiscoveryRead(MessageRequestConversation(followers, c))

\* the enricher has read its source
DiscoveryNextStage ==
    /\ pc \in {"discovery_comments", "discovery_inbox", "discovery_requests"}
    /\ pc' = CASE pc = "discovery_comments" -> "discovery_inbox"
               [] pc = "discovery_inbox" -> "discovery_requests"
               [] pc = "discovery_requests" -> "discovery_finalize"
    /\ UNCHANGED <<text, result, followers, steps, layout, consumed, entry,
                   progress, written, results>>

DiscoveryFinalize ==
    /\ pc = "discovery_finalize"
    /\ \E now \in Nows : followers' = FinalizeFrom(followers, 1, now).f
    /\ pc' = "discovered"
    /\ UNCHANGED <<text, result, steps, layout, consumed, entry, progress,
                   written, results>>

NextDiscovery ==
    \/ DiscoveryComment
    \/ DiscoveryConversation
    \/ DiscoveryRequest
    \/ DiscoveryNextStage
    \/ DiscoveryFinalize

SpecDiscovery == InitDiscovery /\ [][NextDiscovery]_vars

\* C22: inferred_discovery_method is the first applicable case of:
\* is_follower false, direct_outreach; no or zero follow date,
\* direct_outreach if initiated_conversation, else unknown; first comment
\* timestamp strictly before the follow date, content_discovery; first
\* message timestamp strictly before the follow date, direct_outreach;
\* initiated_conversation, direct_outreach; otherwise unknown.
C22_DiscoveryOrder ==
    pc = "discovered" =>
        \A i \in 1..Len(followers) :
            LET r == followers[i]
                follow == IF r.follow_date = None THEN 0 ELSE r.follow_date[1]
                initiated == /\ r.messages # None
                             /\ r.messages[1].initiated_conversation
                commented == /\ r.comments # None
                             /\ r.comments[1].first_comment_timestamp # None
                messaged == /\ r.messages # None
                            /\ r.messages[1].first_message_timestamp # None
            IN r.inferred_discovery_method = Some(
                 CASE r.is_follower = Some(FALSE) -> "direct_outreach"
                   [] r.is_follower # Some(FALSE) /\ follow = 0 ->
                        IF initiated THEN "direct_outreach" ELSE "unknown"
                   [] OTHER ->
                        IF commented
                           /\ r.comments[1].first_comment_timestamp[1] < follow
                        THEN "content_discovery"
                        ELSE IF messaged
                                /\ r.messages[1].first_message_timestamp[1]
                                      < follow
                        THEN "direct_outreach"
                        ELSE IF initiated THEN "direct_outreach"
                        ELSE "unknown")

\* a follower who commented and messaged before following
C22_Witness ==
    /\ pc = "discovered"
    /\ Len(followers) = 1
    /\ followers[1].follow_date = Some(2)
    /\ followers[1].is_follower = Some(TRUE)
    /\ followers[1].comments # None
    /\ followers[1].comments[1].first_comment_timestamp = Some(1)
    /\ followers[1].messages # None
    /\ followers[1].messages[1].first_message_timestamp = Some(1)
    /\ followers[1].inferred_discovery_method = Some("content_discovery")

----------------------------------------------------------------------------
(* Properties of the finalizer, checked under Spec *)

\* C23: before the finalizer a record has no status or one of the four
\* statuses the enrichers write; a finalization that completes leaves
\* every record with active_follower if it had no status and with the
\* status it had otherwise; so after it every status is one of the five.
C23_StatusAfterFinalization ==
    [][/\ \A i \in 1..Len(followers') :
             pc' \in LoadingStages \cup {"finalize"}
             => followers'[i].status \in
                   {None, Some("pending_request"), Some("recent_request"),
                    Some("recently_unfollowed"),
                    Some("message_request_only")}
       /\ (pc = "finalize" /\ pc' = "export_jsonl")
          => /\ Len(followers') = Len(followers)
             /\ \A i \in 1..Len(followers) :
                   /\ followers'[i].status \in
                         {Some("active_follower"), Some("pending_request"),
                          Some("recent_request"),
                          Some("recently_unfollowed"),
                          Some("message_request_only")}
                   /\ (followers'[i].status = Some("active_follower"))
                         = (followers[i].status = None)
                   /\ followers[i].status # None
                         => followers'[i].status = followers[i].status
       /\ pc \in {"export_jsonl", "export_excel", "done"}
          => \A i \in 1..Len(followers) :
                followers'[i].status = followers[i].status]_vars

\* the finalizer has kept the status the pending file gave to a follower
C23_Witness ==
    /\ pc = "export_jsonl"
    /\ Len(followers) = 1
    /\ followers[1].follow_date # None
    /\ followers[1].status = Some("pending_request")
    /\ followers[1].engagement_score # None

----------------------------------------------------------------------------
(* Properties of the sample comments, checked under SpecComments *)

\* C24: the sample_comments of a record hold the first
\* min(5, total_comments) comments that mention its username, in the order
\* they were read, each text cut to at most 200 characters.
C24_SamplesAreFirstComments ==
    \A i \in 1..Len(followers) :
        followers[i].comments # None =>
            LET c == followers[i].comments[1]
                mentions == Mentioning(steps, followers[i].username)
                kept == IF c.total_comments < 5 THEN c.total_comments ELSE 5
            IN /\ Len(c.sample_comments) = kept
               /\ kept <= Len(mentions)
               /\ \A k \in 1..kept :
                     /\ Len(c.sample_comments[k].text) <= 200
                     /\ c.sample_comments[k].text =
                           Truncate(fix_double_encoded_unicode(
                                        mentions[k].text))

----------------------------------------------------------------------------
(* SpecStories: the entries of the three story files, read in any order   *)
(* on a mapping load_followers returned; steps is the list of the entries *)
(* read, each with its file                                               *)

\* most story entries read in SpecStories
MaxStories == 3

\* entries titled "A" or "ab"
OrderedStories == [title : {<<65>>, <<97, 98>>}, timestamp : Timestamps]

InitStories ==
    /\ pc = "stories"
    /\ text = <<>>
    /\ result = <<>>
    /\ followers \in EnrichMappings
    /\ steps = <<>>
    /\ layout = None
    /\ consumed = 0
    /\ entry = None
    /\ progress = <<>>
    /\ written = {}
    /\ results = None

ReadStory ==
    /\ pc = "stories"
    /\ Len(steps) < MaxStories
    /\ \E source \in {"story_likes", "emoji_reactions", "countdowns"} :
          \E e \in OrderedStories :
              /\ followers' = StoryEntry(followers, e, source)
              /\ steps' = Append(steps, [source |-> source, e |-> e])
    /\ UNCHANGED <<pc, text, result, layout, consumed, entry, progress,
                   written, results>>

NextStories == ReadStory

SpecStories == InitStories /\ [][NextStories]_vars

\* the entries read that name username
StoriesOf(username) ==
    {k \in 1..Len(steps) : normalize_username(steps[k].e.title) = username}

\* C25: each of the three counters of a record is the number of entries of
\* its own file whose normalized title is the key of the record, and
\* last_story_interaction_timestamp is the greatest non-zero timestamp of
\* the entries of the three files that name the record; the entries being
\* read in every order, the result does not depend on the order.
C25_StoryCounters ==
    \A i \in 1..Len(followers) :
        LET mine == StoriesOf(followers[i].username)
            of(source) == Cardinality({k \in mine : steps[k].source = source})
            dated == {steps[k].e.timestamp : k \in mine} \ {0}
        IN IF mine = {} THEN followers[i].story_interactions = None
           ELSE /\ followers[i].story_interactions # None
                /\ followers[i].story_interactions[1] =
                     [story_likes_count |-> of("story_likes"),
                      emoji_reactions_count |-> of("emoji_reactions"),
                      countdown_interactions_count |-> of("countdowns"),
                      last_story_interaction_timestamp |->
                          IF dated = {} THEN None ELSE Some(SetMax(dated))]

\* a like of second 2, then an emoji reaction of second 1, then a countdown
\* without a timestamp, of "ab": the timestamp is that of the like
C25_Witness ==
    /\ Len(steps) = 3
    /\ steps[1] = [source |-> "story_likes",
                   e |-> [title |-> <<97, 98>>, timestamp |-> 2]]
    /\ steps[2] = [source |-> "emoji_reactions",
                   e |-> [title |-> <<97, 98>>, timestamp |-> 1]]
    /\ steps[3] = [source |-> "countdowns",
                   e |-> [title |-> <<97, 98>>, timestamp |-> 0]]
    /\ \E i \in 1..Len(followers) :
          /\ followers[i].username = <<97, 98>>
          /\ followers[i].story_interactions # None
          /\ followers[i].story_interactions[1]
                .last_story_interaction_timestamp = Some(2)
          /\ followers[i].story_interactions[1].story_likes_count = 1
          /\ followers[i].story_interactions[1].emoji_reactions_count = 1
          /\ followers[i].story_interactions[1]
                .countdown_interactions_count = 1

----------------------------------------------------------------------------
(* SpecRepairAny: fix_double_encoded_unicode on any text of the           *)
(* characters 'a', U+00A9, U+00BF, U+00C2, U+00C3 and U+00D0              *)

AnyAlphabet == {97, 169, 191, 194, 195, 208}

InitRepairAny ==
    /\ pc = "repair_any"
    /\ text \in StringsUpTo(AnyAlphabet, MaxLen)
    /\ result = <<>>
    /\ followers = <<>>
    /\ steps = <<>>
    /\ layout = None
    /\ consumed = 0
    /\ entry = None
    /\ progress = <<>>
    /\ written = {}
    /\ results = None

RepairAny ==
    /\ pc = "repair_any"
    /\ result' = <<fix_double_encoded_unicode(text)>>
    /\ pc' = "repaired_any"
    /\ UNCHANGED <<text, followers, steps, layout, consumed, entry, progress,
                   written, results>>

NextRepairAny == RepairAny

SpecRepairAny == InitRepairAny /\ [][NextRepairAny]_vars

\* C26: the repair returns a string other than its input only if the
\* string holds a character in 0x0400-0x04FF, or if it holds no character
\* in 0x80-0xBF or 0xD0-0xDF and the characters of the input in those
\* ranges are more than 20% of its length.
C26_RepairAccepted ==
    (pc = "repaired_any" /\ result[1] # text) =>
        LET fixed == result[1]
            flagged == Cardinality({i \in 1..Len(text) : IsMojibake(text[i])})
        IN \/ \E i \in 1..Len(fixed) : 1024 <= fixed[i] /\ fixed[i] <= 1279
           \/ /\ \A i \in 1..Len(fixed) : ~IsMojibake(fixed[i])
              /\ 5 * flagged > Len(text)

----------------------------------------------------------------------------
(* Properties of the stages and of the progress reports, checked under    *)
(* Spec                                                                   *)

\* C27: the stages run in the order identity loader, comments, inbox,
\* story interactions, message requests, follow requests, unfollows,
\* finalizer, exports, an entry being read only by the stage the run is
\* in; the percentages reported are strictly increasing: 5, 15, 30, 50, 65
\* and 80, each when its stage starts, then 85 if and only if the JSONL
\* export is enabled, 90 if and only if the Excel export is, and 100 when
\* the run is done and not before.
C27_StagesAndProgress ==
    /\ [](LET order == <<"start", "followers", "comments", "inbox",
                         "story_likes", "emoji_reactions", "countdowns",
                         "message_requests", "pending", "recent",
                         "unfollowed", "finalize", "export_jsonl",
                         "export_excel", "done">>
              at == IF pc \in {"config_error", "raised"} THEN 0
                    ELSE CHOOSE k \in 1..15 : order[k] = pc
              reports == {progress[k] : k \in 1..Len(progress)}
          IN /\ \A k \in 1..(Len(progress) - 1) :
                   progress[k] < progress[k + 1]
             /\ pc = "config_error" => progress = <<>>
             /\ pc = "raised" => progress = <<5, 15, 30, 50, 65, 80>>
             /\ at \in 1..13 =>
                   progress = SubSeq(<<5, 15, 30, 50, 65, 80>>, 1,
                                     <<0, 1, 2, 3, 4, 4, 4, 5, 5, 5, 5, 6,
                                       6>>[at])
             /\ at \in 14..15 =>
                   /\ SubSeq(progress, 1, 6) = <<5, 15, 30, 50, 65, 80>>
                   /\ reports \subseteq {5, 15, 30, 50, 65, 80, 85, 90, 100}
                   /\ (85 \in reports) =
                         (\E k \in 1..Len(results[1].output_files) :
                             results[1].output_files[k] = "jsonl")
             /\ (100 \in reports) = (pc = "done")
             /\ pc = "done" =>
                   /\ progress[Len(progress)] = 100
                   /\ (90 \in reports) =
                         (\E k \in 1..Len(results[1].output_files) :
                             results[1].output_files[k] = "xlsx"))
    /\ [][LET order == <<"start", "followers", "comments", "inbox",
                         "story_likes", "emoji_reactions", "countdowns",
                         "message_requests", "pending", "recent",
                         "unfollowed", "finalize", "export_jsonl",
                         "export_excel", "done">>
          IN /\ pc' # pc =>
                   \/ \E k \in 1..14 : pc = order[k] /\ pc' = order[k + 1]
                   \/ pc = "start" /\ pc' = "config_error"
                   \/ pc = "finalize" /\ pc' = "raised"
             /\ consumed' # consumed =>
                   /\ entry' # None
                   /\ entry'[1].stage = pc
                   /\ pc \in LoadingStages
             /\ followers' # followers =>
                   pc \in LoadingStages \cup {"finalize"}]_vars

\* a run with both exports is done
C27_Witness ==
    /\ pc = "done"
    /\ progress = <<5, 15, 30, 50, 65, 80, 85, 90, 100>>
    /\ consumed = 2
    /\ Len(followers) = 2

----------------------------------------------------------------------------
(* Properties of the result, checked under Spec *)

\* C28: the output files a completed run returns are the files it wrote.
C28_OutputFilesWritten ==
    pc = "done" =>
        {results[1].output_files[k] :
            k \in 1..Len(results[1].output_files)}
          = {w.file : w \in written}

\* C29: in the result of a completed run, total_entries is the number of
\* records of the mapping and the sum of followers_count and
\* non_followers_count; non_followers_count counts the records whose
\* is_follower is false and entries_with_interactions those whose
\* has_interactions is true, which is at most total_entries; and every
\* record whose is_follower is false has has_interactions true.
C29_ResultCounts ==
    pc \in {"export_jsonl", "export_excel", "done"} =>
        LET r == results[1]
            leads == {i \in 1..Len(followers) :
                         followers[i].is_follower = Some(FALSE)}
            active == {i \in 1..Len(followers) :
                          followers[i].has_interactions = Some(TRUE)}
        IN /\ r.total_entries = Len(followers)
           /\ r.total_entries = r.followers_count + r.non_followers_count
           /\ r.non_followers_count = Cardinality(leads)
           /\ r.entries_with_interactions = Cardinality(active)
           /\ r.entries_with_interactions <= r.total_entries
           /\ leads \subseteq active

\* a completed run of one follower without interactions and one lead
C29_Witness ==
    /\ pc = "done"
    /\ results # None
    /\ results[1].total_entries = 2
    /\ results[1].followers_count = 1
    /\ results[1].non_followers_count = 1
    /\ results[1].entries_with_interactions = 1

----------------------------------------------------------------------------
(* SpecWeb: the upload sessions of routes.py.  In this specification      *)
(* results is processing_state (a function on the session ids that have   *)
(* an entry), written is the set of the sessions whose spreadsheet        *)
(* exists, pc gives the position of the background task of each session,  *)
(* progress the number of reports its worker has made, entry the          *)
(* instagram_session_id of the browser session, and consumed the number   *)
(* of uploads.  progress_stream only reads processing_state; what it      *)
(* writes to the browser session after the response has started is not    *)
(* sent back to the browser, so download_result finds a result file only  *)
(* in processing_state                                                    *)

\* most uploads of SpecWeb
MaxSessions == 2

\* the percentages process_instagram_data reports with export_jsonl False
\* and export_excel True
WebReports == <<5, 15, 30, 50, 65, 80, 90, 100>>

\* the reports after which process_instagram_data can raise: none (the
\* layout is refused), 80 (the finalizer), 90 (the spreadsheet export)
RaisePoints == {0, 6, 7}

InitWeb ==
    /\ pc = [s \in 1..MaxSessions |-> "none"]
    /\ text = <<>>
    /\ result = <<>>
    /\ followers = <<>>
    /\ steps = <<>>
    /\ layout = None
    /\ consumed = 0
    /\ entry = None
    /\ progress = [s \in 1..MaxSessions |-> 0]
    /\ written = {}
    /\ results = <<>>

\* processing_state with the entry of session s set to state
WithState(s, state) ==
    [t \in DOMAIN results \cup {s} |-> IF t = s THEN state ELSE results[t]]

\* upload_instagram_data, for a ZIP file that is accepted and extracted
Upload ==
    /\ consumed < MaxSessions
    /\ consumed' = consumed + 1
    /\ entry' = Some(consumed + 1)
    /\ results' = WithState(consumed + 1,
                            [status |-> "uploaded", progress_percent |-> 0,
                             result_file |-> None])
    /\ pc' = [pc EXCEPT ![consumed + 1] = "created"]
    /\ UNCHANGED <<text, result, followers, steps, layout, progress, written>>

\* the background task starts
BackgroundBegin ==
    \E s \in DOMAIN pc :
        /\ pc[s] = "created"
        /\ IF s \in DOMAIN results
           THEN /\ results' = WithState(s, [results[s] EXCEPT
                                               !.status = "processing"])
                /\ pc' = [pc EXCEPT ![s] = "checking"]
           ELSE /\ results' = results
                /\ pc' = [pc EXCEPT ![s] = "finished"]
        /\ UNCHANGED <<text, result, followers, steps, layout, consumed,
                       entry, progress, written>>

\* the checks of the upload directory, and the hand-over to the executor
BackgroundCheck ==
    \E s \in DOMAIN pc :
        /\ pc[s] = "checking"
        /\ \E valid \in BOOLEAN :
              IF valid
              THEN /\ pc' = [pc EXCEPT ![s] = "running"]
                   /\ results' = results
              ELSE /\ pc' = [pc EXCEPT ![s] = "finished"]
                   /\ results' = WithState(s, [results[s] EXCEPT
                                                  !.status = "error"])
        /\ UNCHANGED <<text, result, followers, steps, layout, consumed,
                       entry, progress, written>>

\* progress_callback, called by the worker thread
Callback ==
    \E s \in DOMAIN pc :
        /\ pc[s] = "running"
        /\ progress[s] < Len(WebReports)
        /\ progress' = [progress EXCEPT ![s] = @ + 1]
        /\ results' = IF s \in DOMAIN results
                      THEN WithState(s, [results[s] EXCEPT
                                            !.progress_percent =
                                                WebReports[progress[s] + 1]])
                      ELSE results
        /\ UNCHANGED <<pc, text, result, followers, steps, layout, consumed,
                       entry, written>>

\* process_instagram_data raises in the worker thread
WorkerRaise ==
    \E s \in DOMAIN pc :
        /\ pc[s] = "running"
        /\ progress[s] \in RaisePoints
        /\ pc' = [pc EXCEPT ![s] = "raised"]
        /\ UNCHANGED <<text, result, followers, steps, layout, consumed,
                       entry, progress, written, results>>

\* process_instagram_data returns; the spreadsheet was written when pandas
\* is available
WorkerReturn ==
    \E s \in DOMAIN pc :
        /\ pc[s] = "running"
        /\ progress[s] = Len(WebReports)
        /\ pc' = [pc EXCEPT ![s] = "returned"]
        /\ \E PANDAS_AVAILABLE \in BOOLEAN :
              written' = IF PANDAS_AVAILABLE THEN written \cup {s}
                         ELSE written
        /\ UNCHANGED <<text, result, followers, steps, layout, consumed,
                       entry, progress, results>>

\* a mutant of FinishedState: the run is complete whether or not the
\* spreadsheet exists
FinishedStateAlwaysComplete(state, s, exists) ==
    [state EXCEPT !.result_file = Some(s), !.status = "complete",
                  !.progress_percent = 100]

\* the entry of session s after process_instagram_data has returned
FinishedState(state, s, exists) ==
    IF exists
    THEN [state EXCEPT !.result_file = Some(s), !.status = "complete",
                       !.progress_percent = 100]
    ELSE [state EXCEPT !.status = "error"]

\* the background task after the executor: the result is stored, or the
\* exception is handled; without an entry of the session nothing is stored
BackgroundFinish ==
    \E s \in DOMAIN pc :
        /\ pc[s] \in {"returned", "raised"}
        /\ pc' = [pc EXCEPT ![s] = "finished"]
        /\ results' =
             IF s \notin DOMAIN results THEN results
             ELSE IF pc[s] = "raised"
             THEN WithState(s, [results[s] EXCEPT !.status = "error"])
             ELSE WithState(s, FinishedState(results[s], s, s \in written))
        /\ UNCHANGED <<text, result, followers, steps, layout, consumed,
                       entry, progress, written>>

\* download_result, when the session has a result file that exists: the
\* entry and the browser session are cleared and the files are removed
Download ==
    /\ entry # None
    /\ entry[1] \in DOMAIN results
    /\ results[entry[1]].result_file # None
    /\ results[entry[1]].result_file[1] \in written
    /\ results' = [t \in DOMAIN results \ {entry[1]} |-> results[t]]
    /\ written' = written \ {results[entry[1]].result_file[1]}
    /\ entry' = None
    /\ UNCHANGED <<pc, text, result, followers, steps, layout, consumed,
                   progress>>

NextWeb ==
    \/ Upload
    \/ BackgroundBegin
    \/ BackgroundCheck
    \/ Callback
    \/ WorkerRaise
    \/ WorkerReturn
    \/ BackgroundFinish
    \/ Download

SpecWeb == InitWeb /\ [][NextWeb]_vars

\* C30: an entry of processing_state is created with status uploaded, and its
\* status changes only from uploaded to processing and from processing to
\* complete or to error; an entry is removed only by the download of a
\* complete session; a complete entry has progress_percent 100 and a
\* result_file that exists; and a background task that ends after its run
\* raised, or returned without a spreadsheet, leaves status error.
C30_SessionStatus ==
    /\ [](\A s \in DOMAIN results :
             /\ results[s].status \in
                   {"uploaded", "processing", "complete", "error"}
             /\ results[s].status = "complete" =>
                   /\ results[s].progress_percent = 100
                   /\ results[s].result_file # None
                   /\ results[s].result_file[1] \in written)
    /\ [][/\ \A s \in DOMAIN results' \ DOMAIN results :
                results'[s].status = "uploaded"
          /\ \A s \in DOMAIN results \ DOMAIN results' :
                results[s].status = "complete"
          /\ \A s \in DOMAIN results \cap DOMAIN results' :
                results'[s].status # results[s].status =>
                    <<results[s].status, results'[s].status>> \in
                        {<<"uploaded", "processing">>,
                         <<"processing", "complete">>,
                         <<"processing", "error">>}
          /\ \A s \in DOMAIN pc :
                (/\ pc'[s] = "finished"
                 /\ \/ pc[s] = "raised"
                    \/ pc[s] = "returned" /\ s \notin written)
                => /\ s \in DOMAIN results'
                   /\ results'[s].status = "error"]_vars

\* the first session is complete while the worker of the second has
\* reported 50
C30_Witness ==
    /\ DOMAIN results = {1, 2}
    /\ results[1].status = "complete"
    /\ results[1].result_file = Some(1)
    /\ 1 \in written
    /\ results[2].status = "processing"
    /\ results[2].progress_percent = 50
    /\ pc[2] = "running"

====
